---- MODULE Spec2Model ----
(***************************************************************************)
(* A model of the update core of angelini/generals: the per-unit state     *)
(* machine (unit.rs), the World's per-tick pipeline and relationship       *)
(* caches (main.rs) and the script actor with its two channels             *)
(* (interpreter.rs).                                                       *)
(*                                                                         *)
(* The files are of two revisions: main.rs calls an exec that returns the  *)
(* deltas at once, interpreter.rs has the exec that sends the request to a *)
(* worker thread, which sends the deltas back on a channel.  The model     *)
(* runs the pipeline of main.rs on the actor of interpreter.rs; what is in *)
(* neither file (the drain of the result channel once per tick, after the  *)
(* view pass and before the removal of the dead, and what the simulation   *)
(* thread does when exec fails) follows the design document.  main.rs     *)
(* also hands every Unit::update a snapshot of all places, which the       *)
(* update of unit.rs does not take: it reads the unit alone.               *)
(*                                                                         *)
(* Five specifications: Spec is the World with its worker thread,          *)
(* SpecTicks the simulation thread alone over many rosters, SpecActor the  *)
(* worker thread alone over many requests, SpecTimeline the World with the *)
(* worker and the timeline thread, SpecPose the pose operations of         *)
(* geometry.rs alone over many poses.                                      *)
(*                                                                         *)
(* Numbers.  The program computes in f64.  The model computes exactly:     *)
(* coordinates, speeds and dt are rationals <<n, d>> in lowest terms with  *)
(* d > 0, and <<0, 0>> is NaN (0.0 / 0.0), which is contagious and         *)
(* compares false with everything as in IEEE 754.  Rounding error of f64   *)
(* arithmetic is not modelled.                                             *)
(*                                                                         *)
(* Angles.  Headings are measured in eighths of a turn (EIGHTH = pi/4), so *)
(* TWO_PI = 8.  The unit of time is chosen so that the dt radians a unit   *)
(* turns in one tick are dt eighths; speeds are distances per that unit of *)
(* time.  Bearings (atan2) are exact on the eight principal directions and *)
(* the initial states only hold configurations whose bearings are          *)
(* principal.  Sines and cosines of eighths are numbers of Q(sqrt 2).      *)
(***************************************************************************)
EXTENDS Integers, Sequences, FiniteSets, TLC

VARIABLES
    units,            \* State.units: id -> Unit (main.rs)
    collision_cache,  \* State.collision_cache: id -> set of ids
    view_cache,       \* State.view_cache: id -> set of ids
    handlers,         \* which lua/<role>_<event>.lua files exist (EventHandlers::load)
    lua,              \* the worker's Lua state: what each function <role>_on_<event> does
    dt,               \* UpdateArgs.dt of every tick (the fixed update step)
    tx,               \* request channel Sender<ExecState> -> Receiver<ExecState>
    delta_rx,         \* result channel Sender<Delta> -> Receiver<Delta>
    worker,           \* the script worker thread: its position and the request it holds
    timeline,         \* the timeline thread: its position, the list it replays, its clock
    sim,              \* the simulation thread: "running", "blocked" or "panicked"
    next_id,          \* the next fresh id (Uuid::new_v4)
    ticks,            \* number of ticks run so far
    log               \* what the last tick and the last evaluation did (history,
                      \* read by the properties only)

vars == <<units, collision_cache, view_cache, handlers, lua, dt, tx, delta_rx,
          worker, timeline, sim, next_id, ticks, log>>

(***************************************************************************)
(* Exact arithmetic                                                        *)
(***************************************************************************)
Abs(n) == IF n < 0 THEN -n ELSE n

RECURSIVE Gcd(_, _)
Gcd(a, b) == IF b = 0 THEN a ELSE Gcd(b, a % b)

NaN == <<0, 0>>

IsNaN(a) == a[2] = 0

\* n/d in lowest terms with a positive denominator; 0/0 is NaN.
Rat(n, d) ==
    IF d = 0 THEN NaN
    ELSE LET g == Gcd(Abs(n), Abs(d))
             s == IF d < 0 THEN -1 ELSE 1
         IN  <<(s * n) \div g, (s * d) \div g>>

R(n) == <<n, 1>>

RAdd(a, b) == IF IsNaN(a) \/ IsNaN(b) THEN NaN
              ELSE Rat(a[1] * b[2] + b[1] * a[2], a[2] * b[2])

RNeg(a) == <<-a[1], a[2]>>

RSub(a, b) == RAdd(a, RNeg(b))

RMul(a, b) == IF IsNaN(a) \/ IsNaN(b) THEN NaN
              ELSE Rat(a[1] * b[1], a[2] * b[2])

\* The only division of the program is xdist / (xdist + ydist) with both
\* distances >= 0: its divisor is 0 only when its dividend is, which is NaN.
RDiv(a, b) == IF IsNaN(a) \/ IsNaN(b) THEN NaN
              ELSE Rat(a[1] * b[2], a[2] * b[1])

RLt(a, b) == ~IsNaN(a) /\ ~IsNaN(b) /\ a[1] * b[2] < b[1] * a[2]

RLe(a, b) == ~IsNaN(a) /\ ~IsNaN(b) /\ a[1] * b[2] <= b[1] * a[2]

RGt(a, b) == RLt(b, a)

RAbs(a) == <<Abs(a[1]), a[2]>>

(***************************************************************************)
(* UnitRole, UnitState and Unit (unit.rs)                                  *)
(***************************************************************************)
Roles == {"soldier", "general", "bullet"}

EventTypes == {"collision", "state_change", "enter_view", "exit_view"}

Idle == [t |-> "Idle", x |-> R(0), y |-> R(0)]
Dead == [t |-> "Dead", x |-> R(0), y |-> R(0)]
Move(x, y) == [t |-> "Move", x |-> x, y |-> y]
Aim(x, y) == [t |-> "Aim", x |-> x, y |-> y]
Shoot(x, y) == [t |-> "Shoot", x |-> x, y |-> y]

SoldierWidth == 25
SoldierSpeed == 150
GeneralWidth == 50
GeneralSpeed == 50
BulletWidth == 5
BulletSpeed == 150

\* Unit::new: rotation 0, an empty state queue; the id is a fresh uuid.
Unit_new(id, role, x, y, team, width, speed, state) ==
    [id |-> id, team |-> team, role |-> role, x |-> x, y |-> y,
     width |-> width, speed |-> speed, rotation |-> R(0),
     state |-> state, state_queue |-> <<>>]

new_general(id, x, y, team, state) ==
    Unit_new(id, "general", x, y, team, R(GeneralWidth), R(GeneralSpeed), state)

new_soldier(id, x, y, team, state) ==
    Unit_new(id, "soldier", x, y, team, R(SoldierWidth), R(SoldierSpeed), state)

new_bullet(id, x, y, team, state) ==
    Unit_new(id, "bullet", x, y, team, R(BulletWidth), R(BulletSpeed), state)

\* next_state that takes the oldest entry of the queue.
next_state_fifo(self) ==
    IF self.state_queue = <<>>
    THEN [state |-> Idle, queue |-> <<>>]
    ELSE [state |-> Head(self.state_queue), queue |-> Tail(self.state_queue)]

\* self.state_queue.pop().unwrap_or(UnitState::Idle): the state, and the queue left.
next_state(self) ==
    IF self.state_queue = <<>>
    THEN [state |-> Idle, queue |-> <<>>]
    ELSE [state |-> self.state_queue[Len(self.state_queue)],
          queue |-> SubSeq(self.state_queue, 1, Len(self.state_queue) - 1)]

\* move_towards with the whole of `dist` on each axis.
Unit_move_towards_unsplit(self, x, y, dist) ==
    << IF RGt(x, self.x) THEN dist ELSE IF RLt(x, self.x) THEN RNeg(dist) ELSE R(0),
       IF RGt(y, self.y) THEN dist ELSE IF RLt(y, self.y) THEN RNeg(dist) ELSE R(0) >>

\* Unit::move_towards: the (xdelta, ydelta) of a step of `dist` towards (x, y),
\* split across the axes in proportion to the distance left on each.
Unit_move_towards(self, x, y, dist) ==
    LET xd == IF RGt(x, self.x) THEN <<RSub(x, self.x), dist>>
              ELSE IF RLt(x, self.x) THEN <<RSub(self.x, x), RNeg(dist)>>
              ELSE <<R(0), R(0)>>
        yd == IF RGt(y, self.y) THEN <<RSub(y, self.y), dist>>
              ELSE IF RLt(y, self.y) THEN <<RSub(self.y, y), RNeg(dist)>>
              ELSE <<R(0), R(0)>>
        sum == RAdd(xd[1], yd[1])
    IN  <<RMul(xd[2], RDiv(xd[1], sum)), RMul(yd[2], RDiv(yd[1], sum))>>

move_self_towards(self, x, y, d) ==
    LET dist == RMul(self.speed, d)
        delta == Unit_move_towards(self, x, y, dist)
    IN  [self EXCEPT !.x = RAdd(self.x, delta[1]), !.y = RAdd(self.y, delta[2])]

\* The arrival test with the border of the square taken in.
MoveArrives_inclusive(self, x, y, dist) ==
    /\ RLe(x, RAdd(self.x, dist)) /\ RLe(RSub(self.x, dist), x)
    /\ RLe(y, RAdd(self.y, dist)) /\ RLe(RSub(self.y, dist), y)

\* The arrival test of the Move arm: the target is strictly inside the square
\* of half-side dist around the unit.
MoveArrives(self, x, y, dist) ==
    /\ RLt(x, RAdd(self.x, dist)) /\ RGt(x, RSub(self.x, dist))
    /\ RLt(y, RAdd(self.y, dist)) /\ RGt(y, RSub(self.y, dist))

\* Unit::update, the Move arm.
update_Move(self, d) ==
    LET x == self.state.x
        y == self.state.y
        dist == RMul(self.speed, d)
        nx == next_state(self)
    IN  IF MoveArrives(self, x, y, dist)
        THEN [unit |-> [self EXCEPT !.x = x, !.y = y,
                                    !.state = nx.state, !.state_queue = nx.queue],
              new |-> <<>>]
        ELSE [unit |-> move_self_towards(self, x, y, d), new |-> <<>>]

(***************************************************************************)
(* Geometry of the shapes (unit.rs: position, fov, can_see_point,         *)
(* overlaps, can_see).  A number of Q(sqrt 2) is <<p, q>> for p + q*sqrt 2 *)
(* with integers p, q; only its sign is ever read, so every length is      *)
(* scaled to an integer first.                                             *)
(***************************************************************************)
\* a/b > sqrt 2 - 1 for integers a >= 0, b > 0, by the continued fraction
\* sqrt 2 - 1 = 1 / (2 + (sqrt 2 - 1)); no rational equals it.
RECURSIVE GtSqrt2Minus1(_, _)
GtSqrt2Minus1(a, b) ==
    IF a = 0 THEN FALSE
    ELSE IF b - 2 * a <= 0 THEN TRUE
    ELSE IF b - 2 * a >= a THEN FALSE
    ELSE ~GtSqrt2Minus1(b - 2 * a, a)

\* p/q > sqrt 2 for integers p >= 0, q > 0.
GtSqrt2(p, q) ==
    IF p < q THEN FALSE
    ELSE IF p >= 2 * q THEN TRUE
    ELSE GtSqrt2Minus1(p - q, q)

\* The sign (-1, 0, 1) of p + q*sqrt 2.
SSign(s) ==
    LET p == s[1]
        q == s[2]
    IN  IF p = 0 /\ q = 0 THEN 0
        ELSE IF p >= 0 /\ q >= 0 THEN 1
        ELSE IF p <= 0 /\ q <= 0 THEN -1
        ELSE IF p > 0 THEN (IF GtSqrt2(p, -q) THEN 1 ELSE -1)
        ELSE (IF GtSqrt2(-p, q) THEN -1 ELSE 1)

SAdd(s, t) == <<s[1] + t[1], s[2] + t[2]>>
SSub(s, t) == <<s[1] - t[1], s[2] - t[2]>>
SMul(s, t) == <<s[1] * t[1] + 2 * s[2] * t[2], s[1] * t[2] + s[2] * t[1]>>

\* The heading as a whole number of eighths in 0..7 (Isometry2 takes any angle).
Eighths(rotation) == CHOOSE k \in 0..7 : rotation[2] = 1 /\ k = rotation[1] % 8

\* 2*cos and 2*sin of k eighths of a turn.
Cos2(k) == CASE k % 8 = 0 -> <<2, 0>>  [] k % 8 = 4 -> <<-2, 0>>
             [] k % 8 \in {2, 6} -> <<0, 0>>
             [] k % 8 \in {1, 7} -> <<0, 1>>
             [] k % 8 \in {3, 5} -> <<0, -1>>

Sin2(k) == Cos2(k + 6)

Lcm(a, b) == (a * b) \div Gcd(a, b)

\* The scale that makes the coordinates of two units and their half widths whole.
Scale(a, b) ==
    2 * Lcm(Lcm(Lcm(a.x[2], a.y[2]), Lcm(b.x[2], b.y[2])), Lcm(a.width[2], b.width[2]))

ToInt(r, L) == r[1] * (L \div r[2])

\* self.position() applied to a local point: the world point, scaled by 2*L.
\* lx, ly are already scaled by L.
Transform(self, lx, ly, L) ==
    LET k == Eighths(self.rotation)
        cx == SSub(SMul(Cos2(k), <<lx, 0>>), SMul(Sin2(k), <<ly, 0>>))
        cy == SAdd(SMul(Sin2(k), <<lx, 0>>), SMul(Cos2(k), <<ly, 0>>))
    IN  <<SAdd(<<2 * ToInt(self.x, L), 0>>, cx), SAdd(<<2 * ToInt(self.y, L), 0>>, cy)>>

FovDepth == 150

\* self.fov() placed at self.position(): the triangle (0, width/2),
\* (-150, -150), (150, -150), counter-clockwise.
fov(self, L) ==
    << Transform(self, 0, ToInt(self.width, L) \div 2, L),
       Transform(self, -FovDepth * L, -FovDepth * L, L),
       Transform(self, FovDepth * L, -FovDepth * L, L) >>

\* self.shape placed at self.position(): the square of half side width/2.
body(self, L) ==
    LET h == ToInt(self.width, L) \div 2
    IN  << Transform(self, -h, -h, L), Transform(self, h, -h, L),
           Transform(self, h, h, L), Transform(self, -h, h, L) >>

\* The sign of (b - a) x (p - a): 1 when p is left of the edge a -> b.
Side(a, b, p) ==
    SSign(SSub(SMul(SSub(b[1], a[1]), SSub(p[2], a[2])),
               SMul(SSub(b[2], a[2]), SSub(p[1], a[1]))))

Succ(poly, i) == poly[(i % Len(poly)) + 1]

\* PointQuery::contains_point of a solid convex polygon: inside or on the boundary.
Contains(poly, p) ==
    \A i \in 1..Len(poly) : Side(poly[i], Succ(poly, i), p) >= 0

\* An edge of `poly` with all of `other` on or outside it separates the two.
Separates(poly, other) ==
    \E i \in 1..Len(poly) :
        \A j \in 1..Len(other) : Side(poly[i], Succ(poly, i), other[j]) <= 0

\* query::proximity(.., 0.0) == Proximity::Intersecting for two convex
\* polygons: their interiors meet (polygons that only touch are not
\* Intersecting).
Intersecting(p, q) == ~Separates(p, q) /\ ~Separates(q, p)

HasNaN(self) == IsNaN(self.x) \/ IsNaN(self.y)

can_see_point(self, x, y) ==
    /\ ~HasNaN(self) /\ ~IsNaN(x) /\ ~IsNaN(y)
    /\ LET L == 2 * Lcm(Lcm(self.x[2], self.y[2]), Lcm(Lcm(x[2], y[2]), self.width[2]))
       IN  Contains(fov(self, L), <<<<2 * ToInt(x, L), 0>>, <<2 * ToInt(y, L), 0>>>>)

\* overlaps by the edges of self.shape alone.
overlaps_one_sided(self, other) ==
    /\ ~HasNaN(self) /\ ~HasNaN(other)
    /\ LET L == Scale(self, other)
       IN  ~Separates(body(self, L), body(other, L))

overlaps(self, other) ==
    /\ ~HasNaN(self) /\ ~HasNaN(other)
    /\ LET L == Scale(self, other)
       IN  Intersecting(body(self, L), body(other, L))

can_see(self, other) ==
    /\ ~HasNaN(self) /\ ~HasNaN(other)
    /\ LET L == Scale(self, other)
       IN  Intersecting(fov(self, L), body(other, L))

(***************************************************************************)
(* Unit::update (unit.rs)                                                  *)
(***************************************************************************)
TWO_PI == 8
PI == 4
HALF_PI == 2

\* a % m of f64 (the remainder has the sign of a), for a rational a and an integer m > 0.
FMod(a, m) ==
    IF IsNaN(a) THEN NaN
    ELSE LET n == a[1]
             d == a[2]
             t == IF n >= 0 THEN n \div (d * m) ELSE -((-n) \div (d * m))
         IN  Rat(n - t * d * m, d)

\* dy.atan2(dx) in eighths of a turn, in (-4, 4], on the principal directions.
atan2(dy, dx) ==
    CHOOSE k \in -3..4 :
        \/ k = 0 /\ dy[1] = 0 /\ dx[1] >= 0
        \/ k = 4 /\ dy[1] = 0 /\ dx[1] < 0
        \/ k = 2 /\ dx[1] = 0 /\ dy[1] > 0
        \/ k = -2 /\ dx[1] = 0 /\ dy[1] < 0
        \/ k = 1 /\ dx[1] > 0 /\ dy = dx
        \/ k = -1 /\ dx[1] > 0 /\ dy = RNeg(dx)
        \/ k = 3 /\ dx[1] < 0 /\ dy = RNeg(dx)
        \/ k = -3 /\ dx[1] < 0 /\ dy = dx

\* The bearing of (x, y) from the pose, a quarter turn added, brought into
\* [0, 2 pi): dest_rotation of Pose::rotate_towards and of the Aim arm.
dest_rotation_of(self, x, y) ==
    LET dx == RSub(x, self.x)
        dy == RSub(y, self.y)
        raw == FMod(R(atan2(dy, dx) + HALF_PI), TWO_PI)
    IN  IF IsNaN(dx) \/ IsNaN(dy) THEN NaN
        ELSE IF RLt(raw, R(0)) THEN RAdd(raw, R(TWO_PI)) ELSE raw

\* Pose::rotate_towards (geometry.rs): the pose turned by at most d towards
\* the bearing of (x, y).
Pose_rotate_towards(self, x, y, d) ==
    LET dest_rotation == dest_rotation_of(self, x, y)
        curr_rotation == FMod(self.rotation, TWO_PI)
        delta == RSub(dest_rotation, curr_rotation)
    IN  [self EXCEPT !.rotation =
            IF RLe(dest_rotation, RAdd(curr_rotation, d))
               /\ RLe(RSub(curr_rotation, d), dest_rotation)
            THEN dest_rotation
            ELSE IF RGt(delta, R(0)) /\ RLt(delta, R(PI))
            THEN RAdd(self.rotation, d)
            ELSE IF RLt(RSub(self.rotation, d), R(0))
            THEN RAdd(RSub(self.rotation, d), R(TWO_PI))
            ELSE RSub(self.rotation, d)]

\* Pose::move_towards (geometry.rs): the target when it is strictly inside
\* the square of half-side dist around the pose, else the pose a step of
\* dist nearer, split across the axes as in Unit::move_towards.
Pose_move_towards(self, x, y, dist) ==
    LET delta == Unit_move_towards(self, x, y, dist)
    IN  IF MoveArrives(self, x, y, dist)
        THEN [self EXCEPT !.x = x, !.y = y]
        ELSE [self EXCEPT !.x = RAdd(self.x, delta[1]), !.y = RAdd(self.y, delta[2])]

BulletOffset == 10

\* Unit::update, the Aim arm: turn by d towards the bearing of (x, y); once
\* the bearing is within d, take it and, when the point is in the field of
\* view, pop the next state, else step towards the point.
update_Aim(self, d) ==
    LET x == self.state.x
        y == self.state.y
        dx == RSub(x, self.x)
        dy == RSub(y, self.y)
        raw == FMod(R(atan2(dy, dx) + HALF_PI), TWO_PI)
        curr_rotation == FMod(self.rotation, TWO_PI)
        dest_rotation == IF RLt(raw, R(0)) THEN RAdd(raw, R(TWO_PI)) ELSE raw
        delta == RSub(dest_rotation, curr_rotation)
        turned == [self EXCEPT !.rotation = dest_rotation]
        nx == next_state(turned)
        back == RSub(self.rotation, d)
    IN  IF RLt(dest_rotation, RAdd(curr_rotation, d)) /\ RGt(dest_rotation, RSub(curr_rotation, d))
        THEN IF can_see_point(turned, x, y)
             THEN [unit |-> [turned EXCEPT !.state = nx.state, !.state_queue = nx.queue],
                   new |-> <<>>]
             ELSE [unit |-> move_self_towards(turned, x, y, d), new |-> <<>>]
        ELSE IF RGt(delta, R(0)) /\ RLt(delta, R(PI))
        THEN [unit |-> [self EXCEPT !.rotation = RAdd(self.rotation, d)], new |-> <<>>]
        ELSE [unit |-> [self EXCEPT !.rotation =
                            IF RLt(back, R(0)) THEN RAdd(back, R(TWO_PI)) ELSE back],
              new |-> <<>>]

\* The Shoot arm without the pop of the next state.
update_Shoot_again(self, fresh) ==
    LET x == self.state.x
        y == self.state.y
        delta == Unit_move_towards(self, x, y, RAdd(self.width, R(BulletOffset)))
    IN  IF ~can_see_point(self, x, y)
        THEN [unit |-> [self EXCEPT !.state = Aim(x, y),
                                    !.state_queue = Append(self.state_queue, Shoot(x, y))],
              new |-> <<>>]
        ELSE [unit |-> self,
              new |-> << new_bullet(fresh, RAdd(self.x, delta[1]), RAdd(self.y, delta[2]),
                                    self.team, Move(x, y)) >>]

\* Unit::update, the Shoot arm: a point out of view is aimed at first, with
\* the Shoot pushed for later; a point in view gets a bullet, placed
\* width + 10 towards it, and the next state is popped.
update_Shoot(self, fresh) ==
    LET x == self.state.x
        y == self.state.y
        nx == next_state(self)
        delta == Unit_move_towards(self, x, y, RAdd(self.width, R(BulletOffset)))
    IN  IF ~can_see_point(self, x, y)
        THEN [unit |-> [self EXCEPT !.state = Aim(x, y),
                                    !.state_queue = Append(self.state_queue, Shoot(x, y))],
              new |-> <<>>]
        ELSE [unit |-> [self EXCEPT !.state = nx.state, !.state_queue = nx.queue],
              new |-> << new_bullet(fresh, RAdd(self.x, delta[1]), RAdd(self.y, delta[2]),
                                    self.team, Move(x, y)) >>]

\* Unit::update without its last arm: a state that is none of Move, Aim and
\* Shoot is taken by the Move arm.
Unit_update_restless(self, d, fresh) ==
    CASE self.state.t = "Aim" -> update_Aim(self, d)
      [] self.state.t = "Shoot" -> update_Shoot(self, fresh)
      [] OTHER -> update_Move(self, d)

\* Unit::update: the unit after one tick of d, and the units it spawned
\* (`fresh` is the uuid a spawned bullet gets).
Unit_update(self, d, fresh) ==
    CASE self.state.t = "Move" -> update_Move(self, d)
      [] self.state.t = "Aim" -> update_Aim(self, d)
      [] self.state.t = "Shoot" -> update_Shoot(self, fresh)
      [] OTHER -> [unit |-> self, new |-> <<>>]

(***************************************************************************)
(* The State Codec (unit.rs: impl ToString / FromStr for UnitState).       *)
(* A float printed with {:.2} is <<sign, cents>>: sign is "" or "-" and    *)
(* cents the magnitude rounded to 1/100 (ties to even); NaN prints "NaN".  *)
(* A state's text is its name with two such numbers.                       *)
(***************************************************************************)
Fmt2(a) ==
    IF IsNaN(a) THEN <<"NaN", 0>>
    ELSE LET n == Abs(a[1]) * 100
             q == n \div a[2]
             r == n % a[2]
             c == IF 2 * r > a[2] \/ (2 * r = a[2] /\ q % 2 = 1) THEN q + 1 ELSE q
         IN  <<IF a[1] < 0 THEN "-" ELSE "", c>>

UnitState_to_string(st) ==
    CASE st.t = "Move" -> [name |-> "move", x |-> Fmt2(st.x), y |-> Fmt2(st.y)]
      [] st.t = "Aim" -> [name |-> "aim", x |-> Fmt2(st.x), y |-> Fmt2(st.y)]
      [] st.t = "Shoot" -> [name |-> "shoot", x |-> Fmt2(st.x), y |-> Fmt2(st.y)]
      [] st.t = "Dead" -> [name |-> "dead", x |-> <<"", 0>>, y |-> <<"", 0>>]
      [] st.t = "Idle" -> [name |-> "idle", x |-> <<"", 0>>, y |-> <<"", 0>>]

\* A text no arm of from_str accepts.
Garbage == [name |-> "garbage", x |-> <<"", 0>>, y |-> <<"", 0>>]

\* (?P<x>\d+.\d+) matches digits only: a printed sign or NaN does not match.
MatchesFloat(f) == f[1] = ""

\* UnitState::from_str: [ok |-> TRUE, state |-> ..] or [ok |-> FALSE, ..] for Err.
UnitState_from_str(text) ==
    LET args == MatchesFloat(text.x) /\ MatchesFloat(text.y)
        x == Rat(text.x[2], 100)
        y == Rat(text.y[2], 100)
    IN  CASE text.name = "dead" -> [ok |-> TRUE, state |-> Dead]
          [] text.name = "idle" -> [ok |-> TRUE, state |-> Idle]
          [] text.name = "move" /\ args -> [ok |-> TRUE, state |-> Move(x, y)]
          [] text.name = "aim" /\ args -> [ok |-> TRUE, state |-> Aim(x, y)]
          [] text.name = "shoot" /\ args -> [ok |-> TRUE, state |-> Shoot(x, y)]
          [] OTHER -> [ok |-> FALSE, state |-> Idle]

(***************************************************************************)
(* The script actor (interpreter.rs)                                       *)
(***************************************************************************)
\* UnitSnapshot::new: a copy of the unit's id, x, y, team, role and state.
UnitSnapshot_new(unit) ==
    [id |-> unit.id, x |-> unit.x, y |-> unit.y, team |-> unit.team,
     role |-> unit.role, state |-> unit.state]

\* The ExecState that Interpreter::exec sends: the function name
\* "<role>_on_<event>" and the snapshots; `other` is <<>> (None) or <<unit>>.
ExecState(role, event_type, unit, other) ==
    [function |-> <<role, event_type>>,
     self |-> UnitSnapshot_new(unit),
     other |-> IF other = <<>> THEN <<>> ELSE <<UnitSnapshot_new(other[1])>>]

UpdateState(id, state) == [kind |-> "UpdateState", id |-> id, state |-> state]
NewUnit(unit) == [kind |-> "NewUnit", id |-> unit.id, state |-> unit.state, unit |-> unit]

\* A rendezvous channel: a send waits until the receiver takes the message.
send_ready_rendezvous(chan, w) == w.pc = "recv" /\ chan = <<>>

\* mpsc::channel() is asynchronous and unbounded: a send never waits for the
\* receiver or for room.
send_ready(chan, w) == TRUE

\* A behaviour script is an opaque function of the request.  What a
\* function <role>_on_<event> does is one of: "undefined" (no such global),
\* "fault" (the call raises), "nostate" (it leaves no readable __self.state),
\* "untouched" (it leaves the state text set_unit wrote), "garbage" (it
\* leaves a text that is no state), "set" (it leaves the text of `state`).
Does(kind) == [kind |-> kind, state |-> Idle]
Sets(state) == [kind |-> "set", state |-> state]

\* What running the behaviour leaves behind: a Lua fault, or the text of
\* __self.state as <<text>>, <<>> when there is none.
ScriptOutcome(l, req) ==
    LET does == l[req.function]
    IN  CASE does.kind = "fault" -> [fault |-> TRUE, text |-> <<>>]
          [] does.kind = "untouched" ->
               [fault |-> FALSE, text |-> <<UnitState_to_string(req.self.state)>>]
          [] does.kind = "garbage" -> [fault |-> FALSE, text |-> <<Garbage>>]
          [] does.kind = "set" -> [fault |-> FALSE, text |-> <<UnitState_to_string(does.state)>>]
          [] OTHER -> [fault |-> FALSE, text |-> <<>>]

\* exec_function that compares the text the behaviour left with the text
\* set_unit wrote, in place of the decoded state with the snapshot's.
exec_function_by_text(req, defined, out) ==
    LET decoded == UnitState_from_str(out.text[1])
    IN  IF ~defined THEN [panic |-> FALSE, delta |-> <<>>]
        ELSE IF out.fault \/ out.text = <<>> THEN [panic |-> TRUE, delta |-> <<>>]
        ELSE IF ~decoded.ok THEN [panic |-> TRUE, delta |-> <<>>]
        ELSE IF out.text[1] # UnitState_to_string(req.self.state)
        THEN [panic |-> FALSE, delta |-> <<UpdateState(req.self.id, decoded.state)>>]
        ELSE [panic |-> FALSE, delta |-> <<>>]

\* exec_function that returns a delta also for a state that is as it was.
exec_function_always(req, defined, out) ==
    LET decoded == UnitState_from_str(out.text[1])
    IN  IF ~defined THEN [panic |-> FALSE, delta |-> <<>>]
        ELSE IF out.fault \/ out.text = <<>> THEN [panic |-> TRUE, delta |-> <<>>]
        ELSE IF ~decoded.ok THEN [panic |-> TRUE, delta |-> <<>>]
        ELSE [panic |-> FALSE, delta |-> <<UpdateState(req.self.id, decoded.state)>>]

\* exec_function that takes a missing function for an error.
exec_function_strict(req, defined, out) ==
    LET decoded == UnitState_from_str(out.text[1])
    IN  IF ~defined \/ out.fault \/ out.text = <<>> THEN [panic |-> TRUE, delta |-> <<>>]
        ELSE IF ~decoded.ok THEN [panic |-> TRUE, delta |-> <<>>]
        ELSE IF decoded.state # req.self.state
        THEN [panic |-> FALSE, delta |-> <<UpdateState(req.self.id, decoded.state)>>]
        ELSE [panic |-> FALSE, delta |-> <<>>]

\* Interpreter::exec_function after the behaviour ran with outcome `out`:
\* "panic" (an Err or the panic! of an undecodable state), or the Option<Delta>
\* as <<>> or <<delta>>.
exec_function(req, defined, out) ==
    LET decoded == UnitState_from_str(out.text[1])
    IN  IF ~defined THEN [panic |-> FALSE, delta |-> <<>>]
        ELSE IF out.fault \/ out.text = <<>> THEN [panic |-> TRUE, delta |-> <<>>]
        ELSE IF ~decoded.ok THEN [panic |-> TRUE, delta |-> <<>>]
        ELSE IF decoded.state # req.self.state
        THEN [panic |-> FALSE, delta |-> <<UpdateState(req.self.id, decoded.state)>>]
        ELSE [panic |-> FALSE, delta |-> <<>>]

(***************************************************************************)
(* The World (main.rs: State)                                              *)
(***************************************************************************)
\* The orders in which a HashMap may hand out the keys `ids`.
Orders(ids) ==
    {o \in [1..Cardinality(ids) -> ids] : \A i, j \in DOMAIN o : i # j => o[i] # o[j]}

\* The ids of `ids` in ascending order.
RECURSIVE Sorted(_)
Sorted(ids) ==
    IF ids = {} THEN <<>>
    ELSE LET m == CHOOSE a \in ids : \A b \in ids : a <= b
         IN  <<m>> \o Sorted(ids \ {m})

\* flat_map over a sequence: the concatenation of f[o[1]], f[o[2]], ...
RECURSIVE FlatMap(_, _)
FlatMap(o, f) == IF o = <<>> THEN <<>> ELSE f[Head(o)] \o FlatMap(Tail(o), f)

\* get_handler of a unit that has a script for every event.
get_handler_any(h, unit, event_type) == event_type \in EventTypes

\* Unit::get_handler: the script of lua/<role>_on_<event>.lua, when the file
\* was there as the unit was made.
get_handler(h, unit, event_type) == <<unit.role, event_type>> \in h

\* State::add_unit
add_unit(w, unit) ==
    [w EXCEPT !.units = (unit.id :> unit) @@ w.units,
              !.collision_cache = (unit.id :> {}) @@ w.collision_cache,
              !.view_cache = (unit.id :> {}) @@ w.view_cache]

\* apply_delta without the test of the unit's state.
apply_delta_unguarded(w, delta) ==
    IF delta.kind = "NewUnit" THEN add_unit(w, delta.unit)
    ELSE IF delta.id \notin DOMAIN w.units THEN [w EXCEPT !.panicked = TRUE]
    ELSE [w EXCEPT !.units[delta.id].state = delta.state]

\* State::apply_delta on the World w = [units, collision_cache, view_cache,
\* panicked]: units.get_mut(&id).unwrap() panics for an id not in the table;
\* a Dead unit keeps its state.
apply_delta(w, delta) ==
    IF delta.kind = "NewUnit" THEN add_unit(w, delta.unit)
    ELSE IF delta.id \notin DOMAIN w.units THEN [w EXCEPT !.panicked = TRUE]
    ELSE IF w.units[delta.id].state # Dead
    THEN [w EXCEPT !.units[delta.id].state = delta.state]
    ELSE w

\* apply_deltas from the newest delta to the oldest.
RECURSIVE apply_deltas_newest_first(_, _)
apply_deltas_newest_first(w, deltas) ==
    IF deltas = <<>> \/ w.panicked THEN w
    ELSE apply_deltas_newest_first(apply_delta(w, deltas[Len(deltas)]),
                                   SubSeq(deltas, 1, Len(deltas) - 1))

\* State::apply_deltas: one delta after the other, in the order of the
\* vector; a panic ends it.
RECURSIVE apply_deltas(_, _)
apply_deltas(w, deltas) ==
    IF deltas = <<>> \/ w.panicked THEN w
    ELSE apply_deltas(apply_delta(w, Head(deltas)), Tail(deltas))

\* State::detect_collisions and State::detect_views
detect_collisions(us, unit) ==
    {id \in DOMAIN us : unit.id # id /\ overlaps(unit, us[id])}

detect_views(us, unit) ==
    {id \in DOMAIN us : unit.id # id /\ can_see(unit, us[id])}

\* State::run_all_unit_updates, the updates: every unit's Unit::update, the
\* bullets spawned getting the fresh ids nid, nid + 1, ...
updated(us, res, spawners, nid) ==
    [units |-> [id \in DOMAIN us |-> res[id].unit],
     new |-> [i \in 1..Len(spawners) |->
                 [res[spawners[i]].new[1] EXCEPT !.id = nid + i - 1]],
     changed |-> {id \in DOMAIN us : res[id].unit.state # us[id].state}]

spawning(us, res, nid) ==
    updated(us, res, Sorted({id \in DOMAIN us : res[id].new # <<>>}), nid)

unit_updates(us, d, nid) ==
    spawning(us, [id \in DOMAIN us |-> Unit_update(us[id], d, 0)], nid)

\* State::run_all_unit_updates, the snapshot `views`: for every unit, the
\* map id -> (x, y) of all the units, made before the first update.
views(us) ==
    [u \in DOMAIN us |-> [id \in DOMAIN us |-> <<us[id].x, us[id].y>>]]

\* The body of the update loop handing the unit the places the loop has
\* got the units to so far.
update_one_live(acc, id, vs, d) ==
    LET res == Unit_update(acc.units[id], d, 0)
    IN  [units |-> [acc.units EXCEPT ![id] = res.unit],
         new |-> acc.new \o res.new,
         changed |-> acc.changed \cup
                        (IF res.unit.state # acc.units[id].state THEN {id} ELSE {}),
         handed |-> [acc.handed EXCEPT ![id] = views(acc.units)[id]]]

\* State::run_all_unit_updates, the body of the update loop for one unit:
\* it is handed its map of the snapshot (views.get(&unit.id)), updated in
\* place, its spawns are appended and it is noted when its state changed.
\* (Unit::update of unit.rs takes no view: it reads the unit alone.)
update_one(acc, id, vs, d) ==
    LET res == Unit_update(acc.units[id], d, 0)
    IN  [units |-> [acc.units EXCEPT ![id] = res.unit],
         new |-> acc.new \o res.new,
         changed |-> acc.changed \cup
                        (IF res.unit.state # acc.units[id].state THEN {id} ELSE {}),
         handed |-> [acc.handed EXCEPT ![id] = vs[id]]]

\* for unit in self.units.values_mut(), the table visited in `order`.
RECURSIVE update_loop(_, _, _, _)
update_loop(acc, order, vs, d) ==
    IF order = <<>> THEN acc
    ELSE update_loop(update_one(acc, Head(order), vs, d), Tail(order), vs, d)

\* State::run_all_unit_updates as the loop it is, visiting the table in
\* `order`: the table, the spawns (their ids not yet drawn), the changed
\* units and the view each unit was handed.
run_all_unit_updates_in(order, us, d) ==
    update_loop([units |-> us, new |-> <<>>, changed |-> {},
                 handed |-> [id \in DOMAIN us |-> <<>>]],
                order, views(us), d)

\* State::run_all_unit_updates, the dispatch (run_unit_update): a
\* StateChange event for every changed unit whose role has the handler.
\* (Here and below: the events of each unit; State::update sends them unit
\* by unit in the order the table is visited.)
\* state_change_events with an event for every unit, changed or not.
state_change_events_every_tick(h, us, changed) ==
    [id \in DOMAIN us |->
        IF get_handler(h, us[id], "state_change")
        THEN <<ExecState(us[id].role, "state_change", us[id], <<>>)>>
        ELSE <<>>]

state_change_events(h, us, changed) ==
    [id \in DOMAIN us |->
        IF id \in changed /\ get_handler(h, us[id], "state_change")
        THEN <<ExecState(us[id].role, "state_change", us[id], <<>>)>>
        ELSE <<>>]

\* State::run_all_collisions with State::run_collisions: a unit without a
\* collision handler is skipped before anything is detected; for the others
\* an event per id that collides now and is not in the cache, and the cache
\* becomes the ids that collide now.
collides_checked(h, us, id) == get_handler(h, us[id], "collision")

\* collision_events with an event for every id that collides now.
collision_events_every_tick(h, us, cache) ==
    [id \in DOMAIN us |->
        IF ~collides_checked(h, us, id) THEN <<>>
        ELSE LET current == Sorted(detect_collisions(us, us[id]))
             IN  [i \in 1..Len(current) |->
                     ExecState(us[id].role, "collision", us[id], <<us[current[i]]>>)]]

collision_events(h, us, cache) ==
    [id \in DOMAIN us |->
        IF ~collides_checked(h, us, id) THEN <<>>
        ELSE LET current == detect_collisions(us, us[id])
                 fresh == Sorted(current \ cache[id])
             IN  [i \in 1..Len(fresh) |->
                     ExecState(us[id].role, "collision", us[id], <<us[fresh[i]]>>)]]

\* collision_cache_after that only ever adds to the cache.
collision_cache_growing(h, us, cache) ==
    [id \in DOMAIN cache |->
        IF id \in DOMAIN us /\ collides_checked(h, us, id)
        THEN cache[id] \cup detect_collisions(us, us[id])
        ELSE cache[id]]

collision_cache_after(h, us, cache) ==
    [id \in DOMAIN cache |->
        IF id \in DOMAIN us /\ collides_checked(h, us, id)
        THEN detect_collisions(us, us[id])
        ELSE cache[id]]

\* State::run_all_views with run_enter_views and run_exit_views: a unit with
\* neither view handler is skipped; for the others an EnterView event per id
\* seen now and not in the cache (with the enter handler), an ExitView event
\* per cached id not seen now that is still in the table (with the exit
\* handler), and the cache becomes the ids seen now.
views_checked(h, us, id) ==
    get_handler(h, us[id], "enter_view") \/ get_handler(h, us[id], "exit_view")

\* view_events with an EnterView event for every id seen now.
view_events_every_tick(h, us, cache) ==
    [id \in DOMAIN us |->
        IF ~views_checked(h, us, id) THEN <<>>
        ELSE LET current == detect_views(us, us[id])
                 entered == IF get_handler(h, us[id], "enter_view")
                            THEN Sorted(current) ELSE <<>>
                 left == IF get_handler(h, us[id], "exit_view")
                         THEN Sorted((cache[id] \ current) \cap DOMAIN us) ELSE <<>>
             IN  [i \in 1..Len(entered) |->
                     ExecState(us[id].role, "enter_view", us[id], <<us[entered[i]]>>)]
                 \o [i \in 1..Len(left) |->
                     ExecState(us[id].role, "exit_view", us[id], <<us[left[i]]>>)]]

view_events(h, us, cache) ==
    [id \in DOMAIN us |->
        IF ~views_checked(h, us, id) THEN <<>>
        ELSE LET current == detect_views(us, us[id])
                 entered == IF get_handler(h, us[id], "enter_view")
                            THEN Sorted(current \ cache[id]) ELSE <<>>
                 left == IF get_handler(h, us[id], "exit_view")
                         THEN Sorted((cache[id] \ current) \cap DOMAIN us) ELSE <<>>
             IN  [i \in 1..Len(entered) |->
                     ExecState(us[id].role, "enter_view", us[id], <<us[entered[i]]>>)]
                 \o [i \in 1..Len(left) |->
                     ExecState(us[id].role, "exit_view", us[id], <<us[left[i]]>>)]]

view_cache_after(h, us, cache) ==
    [id \in DOMAIN cache |->
        IF id \in DOMAIN us /\ views_checked(h, us, id)
        THEN detect_views(us, us[id])
        ELSE cache[id]]

\* The drain of the result channel, once per tick and without waiting: what
\* has arrived is taken, in the order it arrived.
drain_ready(chan) == TRUE

drain(chan) == chan

\* remove_dead that removes nothing.
remove_dead_never(us) == us

\* State::update, the removal of the dead: only the entity table is touched.
remove_dead(us) ==
    [id \in {i \in DOMAIN us : us[i].state # Dead} |-> us[id]]

\* The caller of Interpreter::exec on its Err (the receiver is gone with the
\* worker): a channel disconnection is unrecoverable for the owning thread.
exec_failed(w, events) == w.pc = "panicked" /\ events # <<>>

(***************************************************************************)
(* The simulation thread: State::update, one tick                          *)
(***************************************************************************)
MaxTicks == 3
MaxUnitTicks == 8

\* What one State::update does to the World from the table `us` and the
\* caches: the World after the unit updates and the spawns (detect), the
\* events of each pass by unit, the World after the caches are refreshed
\* (detected) and after the drained deltas are applied (drained).
\* run_all_unit_updates: the updates `up` done, the spawns are applied.
spawned(up, cc, vc) ==
    apply_deltas([units |-> up.units, collision_cache |-> cc,
                  view_cache |-> vc, panicked |-> FALSE],
                 [i \in 1..Len(up.new) |-> NewUnit(up.new[i])])

\* run_all_collisions and run_all_views on the World w after the spawns.
run_passes(up, w, h) ==
    [detect |-> w.units, changed |-> up.changed, new |-> up.new,
     sc |-> state_change_events(h, up.units, up.changed),
     ce |-> collision_events(h, w.units, w.collision_cache),
     ve |-> view_events(h, w.units, w.view_cache),
     detected |-> [w EXCEPT
         !.collision_cache = collision_cache_after(h, w.units, w.collision_cache),
         !.view_cache = view_cache_after(h, w.units, w.view_cache)]]

passes(up, cc, vc, h) == run_passes(up, spawned(up, cc, vc), h)

with_drained(plan, deltas) ==
    [detect |-> plan.detect, changed |-> plan.changed, new |-> plan.new,
     sc |-> plan.sc, ce |-> plan.ce, ve |-> plan.ve, detected |-> plan.detected,
     drained |-> apply_deltas(plan.detected, deltas)]

update_plan(us, cc, vc, h, d, nid, deltas) ==
    with_drained(passes(unit_updates(us, d, nid), cc, vc, h), deltas)

\* The events of a tick in the order they are sent: the StateChange events,
\* then the Collision events, then the view events, each pass visiting the
\* table in `order`.
events_sent(plan, before, order) ==
    FlatMap(SelectSeq(order, LAMBDA id : id \in DOMAIN before), plan.sc)
    \o FlatMap(order, plan.ce) \o FlatMap(order, plan.ve)

\* State::update.  A panic of the simulation thread ends the process: its
\* memory is gone and the model leaves the World as the tick found it.  A
\* thread that has to wait inside a send or a receive is "blocked" there.
Tick(limit) ==
    /\ sim = "running"
    /\ ticks < limit
    /\ \E plan \in {update_plan(units, collision_cache, view_cache, handlers, dt,
                                next_id, drain(delta_rx))} :
      \E events \in {events_sent(plan, units, order) : order \in Orders(DOMAIN plan.detect)} :
        LET base == [kind |-> "tick", before |-> units, cc_before |-> collision_cache,
                     vc_before |-> view_cache, detect |-> plan.detect,
                     changed |-> plan.changed, new |-> plan.new, events |-> events,
                     drained |-> drain(delta_rx), busy |-> worker.pc,
                     start |-> log.start, dispatched |-> log.dispatched,
                     evaluated |-> log.evaluated, req |-> <<>>, res |-> <<>>]
        IN  /\ ticks' = ticks + 1
            /\ UNCHANGED <<handlers, lua, dt, worker, timeline>>
            /\ IF exec_failed(worker, events)
               THEN /\ sim' = "panicked"
                    /\ log' = [base EXCEPT !.kind = "exec_failed", !.drained = <<>>]
                    /\ UNCHANGED <<units, collision_cache, view_cache, tx, delta_rx, next_id>>
               ELSE IF (events # <<>> /\ ~send_ready(tx, worker)) \/ ~drain_ready(delta_rx)
               THEN /\ sim' = "blocked"
                    /\ log' = [base EXCEPT !.kind = "blocked", !.drained = <<>>]
                    /\ UNCHANGED <<units, collision_cache, view_cache, tx, delta_rx, next_id>>
               ELSE IF plan.drained.panicked
               THEN /\ sim' = "panicked"
                    /\ log' = [base EXCEPT !.kind = "apply_failed"]
                    /\ UNCHANGED <<units, collision_cache, view_cache, tx, delta_rx, next_id>>
               ELSE /\ sim' = sim
                    /\ tx' = tx \o events
                    /\ delta_rx' = <<>>
                    /\ next_id' = next_id + Len(plan.new)
                    /\ units' = remove_dead(plan.drained.units)
                    /\ collision_cache' = plan.drained.collision_cache
                    /\ view_cache' = plan.drained.view_cache
                    /\ log' = [base EXCEPT !.dispatched = @ + Len(events)]

(***************************************************************************)
(* The worker thread (Interpreter::new): while let Ok(state) = rx.recv()   *)
(***************************************************************************)
\* rx.recv() hands the worker the oldest request.
WorkerRecv ==
    /\ sim = "running"
    /\ worker.pc = "recv"
    /\ tx # <<>>
    /\ worker' = [pc |-> "exec", req |-> <<Head(tx)>>]
    /\ tx' = Tail(tx)
    /\ UNCHANGED <<units, collision_cache, view_cache, handlers, lua, dt, timeline,
                   delta_rx, sim, next_id, ticks, log>>

\* WorkerExec reading the unit of the request in the table, where it is
\* still there, in place of the snapshot that was sent.
WorkerExec_live ==
    /\ sim = "running"
    /\ worker.pc = "exec"
    /\ LET sent == worker.req[1]
           req == IF sent.self.id \in DOMAIN units
                  THEN [sent EXCEPT !.self = UnitSnapshot_new(units[sent.self.id])]
                  ELSE sent
           defined == lua[req.function].kind # "undefined"
       IN  \E res \in {exec_function(req, defined, ScriptOutcome(lua, req))} :
                 /\ IF res.panic
                    THEN /\ worker' = [pc |-> "panicked", req |-> <<>>]
                         /\ tx' = <<>>
                         /\ delta_rx' = delta_rx
                    ELSE /\ worker' = [pc |-> "recv", req |-> <<>>]
                         /\ tx' = tx
                         /\ delta_rx' = delta_rx \o res.delta
                 /\ log' = [log EXCEPT !.evaluated = @ + 1, !.req = <<req>>,
                                        !.res = <<res>>]
    /\ UNCHANGED <<units, collision_cache, view_cache, handlers, lua, dt, timeline,
                   sim, next_id, ticks>>

\* exec_function on the request held, and the send of its delta.  A panic
\* unwinds the thread: the receiver is dropped with the requests still in it.
WorkerExec ==
    /\ sim = "running"
    /\ worker.pc = "exec"
    /\ LET req == worker.req[1]
           defined == lua[req.function].kind # "undefined"
       IN  \E res \in {exec_function(req, defined, ScriptOutcome(lua, req))} :
                 /\ IF res.panic
                    THEN /\ worker' = [pc |-> "panicked", req |-> <<>>]
                         /\ tx' = <<>>
                         /\ delta_rx' = delta_rx
                    ELSE /\ worker' = [pc |-> "recv", req |-> <<>>]
                         /\ tx' = tx
                         /\ delta_rx' = delta_rx \o res.delta
                 /\ log' = [log EXCEPT !.evaluated = @ + 1, !.req = <<req>>,
                                        !.res = <<res>>]
    /\ UNCHANGED <<units, collision_cache, view_cache, handlers, lua, dt, timeline,
                   sim, next_id, ticks>>

(***************************************************************************)
(* The timeline thread (Interpreter::new): the list that the Lua function  *)
(* timeline() declares is decoded, then its deltas are sent one by one.    *)
(* An entry "(time, update_state(id, state))" is held as its time, its id  *)
(* and the text of its state.  Entries that declare a new unit are left    *)
(* out: the World of main.rs has no arm for the NewUnit of interpreter.rs. *)
(***************************************************************************)
\* The list generate_timeline gives where _G["timeline"] is nil.
NoTimeline == <<>>

TimelineEntry(time, id, text) == [time |-> time, id |-> id, text |-> text]

\* TimelineEvent::from_str with Delta::from_str, their unwraps taken as ok = FALSE.
TimelineEvent_from_str(entry) ==
    LET st == UnitState_from_str(entry.text)
    IN  [ok |-> st.ok, time |-> entry.time, delta |-> UpdateState(entry.id, st.state)]

\* Interpreter::generate_timeline: every entry decoded, in the order of the list.
generate_timeline(declared) ==
    [panic |-> \E i \in DOMAIN declared : ~TimelineEvent_from_str(declared[i]).ok,
     events |-> [i \in DOMAIN declared |-> TimelineEvent_from_str(declared[i])]]

\* for event in timeline, taken from the end of the list.
next_event_last(rest) ==
    [event |-> rest[Len(rest)], rest |-> SubSeq(rest, 1, Len(rest) - 1)]

\* for event in timeline: the events come in the order of the list.
next_event(rest) == [event |-> Head(rest), rest |-> Tail(rest)]

\* The thread starts: the scripts are loaded and the timeline is decoded.
TimelineStart ==
    /\ sim = "running"
    /\ timeline.pc = "start"
    /\ \E g \in {generate_timeline(timeline.declared)} :
          timeline' = [timeline EXCEPT
                          !.pc = IF g.panic THEN "panicked"
                                 ELSE IF g.events = <<>> THEN "done" ELSE "replay",
                          !.rest = IF g.panic THEN <<>> ELSE g.events]
    /\ UNCHANGED <<units, collision_cache, view_cache, handlers, lua, dt, tx, delta_rx,
                   worker, sim, next_id, ticks, log>>

\* One turn of the loop: wait_time = event.time - current_time, the sleep,
\* current_time += wait_time, the send.  Both are u32: when event.time is
\* below current_time the subtraction panics in a build with overflow
\* checks, and in a build without them wait_time wraps, the thread sleeps
\* 2^32 seconds less the difference (turns counts these wraps) and the
\* addition wraps back to event.time.
TimelineSend ==
    /\ sim = "running"
    /\ timeline.pc = "replay"
    /\ \E nx \in {next_event(timeline.rest)} :
        \E checked \in IF nx.event.time < timeline.current_time THEN BOOLEAN ELSE {FALSE} :
          IF checked
          THEN /\ timeline' = [timeline EXCEPT !.pc = "panicked"]
               /\ delta_rx' = delta_rx
          ELSE /\ timeline' = [timeline EXCEPT
                                  !.pc = IF nx.rest = <<>> THEN "done" ELSE "replay",
                                  !.rest = nx.rest,
                                  !.current_time = nx.event.time,
                                  !.turns = IF nx.event.time < timeline.current_time
                                            THEN @ + 1 ELSE @]
               /\ delta_rx' = Append(delta_rx, nx.event.delta)
    /\ UNCHANGED <<units, collision_cache, view_cache, handlers, lua, dt, tx,
                   worker, sim, next_id, ticks, log>>

(***************************************************************************)
(* Initial states and specifications                                       *)
(***************************************************************************)
AllHandlers == Roles \X EventTypes

\* The sets of script files the World may find: every handler; or, for the
\* soldier all but exit_view, for the general state_change only, and for the
\* bullet collision only.
HandlerTables ==
    { AllHandlers,
      ({"soldier"} \X (EventTypes \ {"exit_view"}))
          \cup {<<"general", "state_change">>, <<"bullet", "collision">>} }

\* The scripts: what the function of each event does, for every role.  The
\* quiet scripts touch nothing and define no soldier_on_enter_view.
Script(collision, state_change, enter_view, exit_view) ==
    [key \in AllHandlers |->
        CASE key[2] = "collision" -> collision
          [] key[2] = "state_change" -> state_change
          [] key[2] = "enter_view" -> enter_view
          [] key[2] = "exit_view" -> exit_view]

Home == Move(R(0), R(0))

Quiet ==
    [Script(Does("untouched"), Does("untouched"), Does("untouched"), Does("untouched"))
        EXCEPT ![<<"soldier", "enter_view">>] = Does("undefined")]

Scripts ==
    { Quiet,
      Script(Sets(Home), Sets(Shoot(R(300), R(0))), Sets(Dead), Does("untouched")),
      Script(Sets(Dead), Does("untouched"), Sets(Home), Does("garbage")),
      Script(Does("fault"), Does("nostate"), Does("untouched"), Sets(Home)) }

Facing(unit, eighths) == [unit EXCEPT !.rotation = R(eighths)]

\* The rosters of the world: a soldier of team 1 on the x axis facing +x,
\* and a general of team 2 at (300, 0) facing -x.
Rosters ==
    { (1 :> Facing(new_soldier(1, R(x), R(0), 1, s1), 2))
      @@ (2 :> Facing(new_general(2, R(300), R(0), 2, s2), 6)) :
        x \in {0, 150},
        s1 \in {Move(R(300), R(0)), Shoot(R(300), R(0))},
        s2 \in {Idle, Dead} }

InitWithTimeline(roster, h, g, d, declared) ==
    /\ units = roster
    /\ timeline = [pc |-> "start", declared |-> declared, rest |-> <<>>,
                   current_time |-> 0, turns |-> 0]
    /\ collision_cache = [id \in DOMAIN roster |-> {}]
    /\ view_cache = [id \in DOMAIN roster |-> {}]
    /\ handlers = h
    /\ lua = g
    /\ dt = d
    /\ tx = <<>>
    /\ delta_rx = <<>>
    /\ worker = [pc |-> "recv", req |-> <<>>]
    /\ sim = "running"
    /\ next_id = Cardinality(DOMAIN roster) + 1
    /\ ticks = 0
    /\ log = [kind |-> "init", before |-> roster,
              cc_before |-> [id \in DOMAIN roster |-> {}],
              vc_before |-> [id \in DOMAIN roster |-> {}],
              detect |-> roster, changed |-> {}, new |-> <<>>, events |-> <<>>,
              drained |-> <<>>, busy |-> "recv", start |-> roster,
              dispatched |-> 0, evaluated |-> 0, req |-> <<>>, res |-> <<>>]

\* The World of a ./lua that defines no timeline().
InitWith(roster, h, g, d) == InitWithTimeline(roster, h, g, d, NoTimeline)

Init ==
    \E roster \in Rosters, h \in HandlerTables, g \in Scripts :
        InitWith(roster, h, g, R(1))

WorldTick == Tick(MaxTicks)

Next == WorldTick \/ WorkerRecv \/ WorkerExec

Spec == Init /\ [][Next]_vars

(***************************************************************************)
(* The simulation thread alone: ticks of a World whose scripts are not     *)
(* loaded into the picture (no delta ever arrives).                        *)
(***************************************************************************)
MoveStarts == {<<0, 0>>, <<-30, 40>>, <<100, 0>>}
MoveTargets == {<<100, 100>>, <<100, 0>>, <<-50, -20>>}
MoveSpeeds == {50, 100, 150}
Steps == {R(1), Rat(1, 2), Rat(1, 10)}
Queues == {<<>>, <<Home>>}

\* A soldier on its way from a start to a target.
MoveRosters ==
    { (1 :> [new_soldier(1, R(from[1]), R(from[2]), 1, Move(R(to[1]), R(to[2])))
                EXCEPT !.speed = R(v), !.state_queue = q]) :
        from \in MoveStarts, to \in MoveTargets, v \in MoveSpeeds, q \in Queues }

ShootTargets ==
    {<<100, 0>>, <<0, 100>>, <<-100, 0>>, <<0, -100>>, <<100, 100>>, <<-100, -100>>,
     <<200, 0>>}

\* A soldier at the origin, of any heading, told to shoot at a point, with
\* nothing, one state or two states to resume afterwards.
ShootRosters ==
    { (1 :> [Facing(new_soldier(1, R(0), R(0), 1, Shoot(R(to[1]), R(to[2]))), k)
                EXCEPT !.state_queue = q]) :
        to \in ShootTargets, k \in 0..7, q \in Queues \cup {<<Idle, Home>>} }

\* A soldier walking along the x axis through a general that stands on it.
CrossingRosters ==
    { (1 :> new_soldier(1, R(x), R(0), 1, Move(R(400), R(0))))
      @@ (2 :> Facing(new_general(2, R(300), R(0), 2, Idle), k)) :
        x \in {240, 255}, k \in {0, 6} }

\* Two soldiers that face each other along the x axis, each told to shoot at
\* the place of the other.
DuelRosters ==
    { (1 :> Facing(new_soldier(1, R(0), R(0), 1, Shoot(R(100), R(0))), 2))
      @@ (2 :> Facing(new_soldier(2, R(100), R(0), 2, Shoot(R(0), R(0))), 6)) }

\* A soldier walking along the x axis towards a general that stands on it
\* with a corner turned to the soldier.
DiagonalRosters ==
    { (1 :> new_soldier(1, R(225), R(0), 1, Move(R(400), R(0))))
      @@ (2 :> Facing(new_general(2, R(300), R(0), 2, Idle), 1)) }

\* A soldier told to aim at a point of the x axis: 200 ahead of it, or 250
\* behind it, under ticks in which it turns three eighths of a turn and
\* walks 450.
AimRosters ==
    { (1 :> Facing(new_soldier(1, R(x), R(0), 1, Aim(R(200), R(0))), 2)) : x \in {0, 450} }

TickConfigs ==
    {[roster |-> r, h |-> AllHandlers, dt |-> d] : r \in MoveRosters, d \in Steps}
    \cup {[roster |-> r, h |-> AllHandlers, dt |-> R(1)] : r \in ShootRosters}
    \cup {[roster |-> r, h |-> h, dt |-> Rat(1, 10)] :
             r \in CrossingRosters, h \in HandlerTables}
    \cup {[roster |-> r, h |-> h, dt |-> R(1)] : r \in Rosters, h \in HandlerTables}
    \cup {[roster |-> r, h |-> AllHandlers, dt |-> R(1)] : r \in DuelRosters}
    \cup {[roster |-> r, h |-> AllHandlers, dt |-> Rat(1, 10)] : r \in DiagonalRosters}
    \cup {[roster |-> r, h |-> AllHandlers, dt |-> R(3)] : r \in AimRosters}

InitTicks ==
    \E c \in TickConfigs : InitWith(c.roster, c.h, Quiet, c.dt)

UnitTick == Tick(MaxUnitTicks)

NextTicks == UnitTick

SpecTicks == InitTicks /\ [][NextTicks]_vars

(***************************************************************************)
(* The worker thread alone, between two ticks: requests that were sent for *)
(* a soldier in any state wait in the request channel and the worker       *)
(* serves them.                                                            *)
(***************************************************************************)
\* Coordinates a state may hold: whole, with two decimals, with more than
\* two, negative.
Coords == {R(0), R(300), Rat(5, 2), Rat(33, 100), Rat(1, 3), R(-50)}

ActorStates ==
    {Idle, Dead}
    \cup {Move(x, y) : x \in Coords, y \in Coords}
    \cup {Aim(x, y) : x \in Coords, y \in Coords}
    \cup {Shoot(x, y) : x \in Coords, y \in Coords}

\* The scripts of the world and one that sets states with decimals and
\* defines no state_change function.
ActorScripts ==
    Scripts \cup
    { Script(Sets(Move(Rat(1, 3), Rat(5, 2))), Does("undefined"),
             Sets(Aim(Rat(33, 100), Rat(5, 2))), Sets(Idle)) }

\* A soldier in the state st and a general in front of it.
ActorRoster(st) ==
    (1 :> Facing(new_soldier(1, R(0), R(0), 1, st), 2))
    @@ (2 :> Facing(new_general(2, R(300), R(0), 2, Idle), 6))

\* The requests Interpreter::exec sends for the soldier of a roster: its
\* StateChange event, and its Collision, EnterView and ExitView events
\* about the general.
RequestsOf(roster) ==
    {ExecState("soldier", "state_change", roster[1], <<>>)}
    \cup {ExecState("soldier", e, roster[1], <<roster[2]>>) :
             e \in {"collision", "enter_view", "exit_view"}}

\* The requests that may wait behind the first.
Followers(roster) ==
    {<<>>, <<ExecState("general", "state_change", roster[2], <<>>)>>,
     <<ExecState("general", "collision", roster[2], <<roster[1]>>)>>}

InitActor ==
    \E st \in ActorStates, g \in ActorScripts :
      \E first \in RequestsOf(ActorRoster(st)), rest \in Followers(ActorRoster(st)) :
        /\ units = ActorRoster(st)
        /\ collision_cache = [id \in {1, 2} |-> {}]
        /\ view_cache = [id \in {1, 2} |-> {}]
        /\ handlers = AllHandlers
        /\ lua = g
        /\ dt = R(1)
        /\ tx = <<first>> \o rest
        /\ delta_rx = <<>>
        /\ worker = [pc |-> "recv", req |-> <<>>]
        /\ timeline = [pc |-> "start", declared |-> NoTimeline, rest |-> <<>>,
                       current_time |-> 0, turns |-> 0]
        /\ sim = "running"
        /\ next_id = 3
        /\ ticks = 0
        /\ log = [kind |-> "init", before |-> ActorRoster(st),
                  cc_before |-> [id \in {1, 2} |-> {}],
                  vc_before |-> [id \in {1, 2} |-> {}],
                  detect |-> ActorRoster(st), changed |-> {}, new |-> <<>>,
                  events |-> <<first>> \o rest, drained |-> <<>>, busy |-> "recv",
                  start |-> ActorRoster(st), dispatched |-> 1 + Len(rest),
                  evaluated |-> 0, req |-> <<>>, res |-> <<>>]

NextActor == WorkerRecv \/ WorkerExec

SpecActor == InitActor /\ [][NextActor]_vars

(***************************************************************************)
(* The World, the worker and the timeline thread: a soldier and a general  *)
(* under scripts that do or do not answer, and a timeline that speaks of   *)
(* them.                                                                   *)
(***************************************************************************)
Timelines ==
    { NoTimeline,
      <<TimelineEntry(0, 1, UnitState_to_string(Dead)),
        TimelineEntry(1, 1, UnitState_to_string(Home))>>,
      <<TimelineEntry(1, 2, UnitState_to_string(Move(R(300), R(0)))),
        TimelineEntry(3, 1, UnitState_to_string(Idle))>>,
      <<TimelineEntry(2, 1, UnitState_to_string(Idle)),
        TimelineEntry(1, 2, UnitState_to_string(Dead))>>,
      <<TimelineEntry(0, 1, UnitState_to_string(Idle)),
        TimelineEntry(1, 2, Garbage)>>,
      <<TimelineEntry(0, 3, UnitState_to_string(Idle))>> }

TimelineRosters ==
    { (1 :> Facing(new_soldier(1, R(0), R(0), 1, Move(R(300), R(0))), 2))
      @@ (2 :> Facing(new_general(2, R(300), R(0), 2, Idle), 6)) }

TimelineScripts ==
    { Quiet, Script(Does("untouched"), Sets(Home), Does("untouched"), Does("untouched")) }

InitTimeline ==
    \E roster \in TimelineRosters, g \in TimelineScripts, declared \in Timelines :
        InitWithTimeline(roster, AllHandlers, g, R(1), declared)

NextTimeline == WorldTick \/ WorkerRecv \/ WorkerExec \/ TimelineStart \/ TimelineSend

SpecTimeline == InitTimeline /\ [][NextTimeline]_vars

(***************************************************************************)
(* The pose operations alone: a pose at the origin, of any heading (in or  *)
(* out of [0, 2 pi)), is turned and moved towards a point, a call at a     *)
(* time.  `log` holds the call (kind), the pose it was made on (before)    *)
(* and, for a move, the distance asked for (dist).                         *)
(***************************************************************************)
MaxPoseSteps == 3

PoseHeadings ==
    {R(0), Rat(1, 2), R(1), R(3), R(4), R(7), Rat(15, 2), R(8), R(9), R(-1), Rat(-1, 2)}
PoseTargets == ShootTargets \cup {<<0, 0>>, <<0, 30>>}
PoseTurns == {Rat(1, 2), R(1)}
PoseDists == {R(0), R(50), R(150)}

InitPose ==
    \E h \in PoseHeadings, to \in PoseTargets, d \in PoseTurns :
        InitWith(1 :> [new_soldier(1, R(0), R(0), 1, Move(R(to[1]), R(to[2])))
                          EXCEPT !.rotation = h],
                 AllHandlers, Quiet, d)

PoseRotate ==
    /\ ticks < MaxPoseSteps
    /\ units' = [units EXCEPT ![1] =
                    Pose_rotate_towards(units[1], units[1].state.x, units[1].state.y, dt)]
    /\ ticks' = ticks + 1
    /\ log' = [kind |-> "rotate", before |-> units, dist |-> R(0), start |-> log.start]
    /\ UNCHANGED <<collision_cache, view_cache, handlers, lua, dt, tx, delta_rx, timeline,
                   worker, sim, next_id>>

PoseMove ==
    /\ ticks < MaxPoseSteps
    /\ \E dist \in PoseDists :
        /\ units' = [units EXCEPT ![1] =
                        Pose_move_towards(units[1], units[1].state.x, units[1].state.y, dist)]
        /\ log' = [kind |-> "move", before |-> units, dist |-> dist, start |-> log.start]
    /\ ticks' = ticks + 1
    /\ UNCHANGED <<collision_cache, view_cache, handlers, lua, dt, tx, delta_rx, timeline,
                   worker, sim, next_id>>

NextPose == PoseRotate \/ PoseMove

SpecPose == InitPose /\ [][NextPose]_vars

(***************************************************************************)
(* Properties.  `log` holds what the last tick saw and did: the table as   *)
(* the tick found it (before), the caches as it found them (cc_before,     *)
(* vc_before), the table at the detection passes (detect), the events it   *)
(* sent, in order (events), and the deltas it drained, in order (drained); *)
(* and, when the worker has evaluated a request since, that request (req)  *)
(* and what exec_function made of it (res).                                *)
(***************************************************************************)
Ticked == log.kind = "tick"

\* The drain of the last tick got as far as applying deltas.
Drained == log.kind \in {"tick", "apply_failed"}

Seen(cache, id) == IF id \in DOMAIN cache THEN cache[id] ELSE {}

\* The World of the last tick after the first k drained deltas.
DrainedUpTo(k) ==
    apply_deltas([units |-> log.detect, collision_cache |-> collision_cache,
                  view_cache |-> view_cache, panicked |-> FALSE],
                 SubSeq(log.drained, 1, k))

\* The states an UpdateState may carry.
DeltaStates ==
    {Idle, Dead, Home, Aim(R(300), R(0)), Shoot(R(300), R(0))}

\* C1: Dead is absorbing.  A unit that is Dead when a tick starts is Dead
\* after its update; a unit that is Dead in the table stays Dead under every
\* drained delta, and under UpdateState(id, s) for every state s.
C1_DeadIsAbsorbing ==
    Drained =>
        /\ \A id \in DOMAIN log.before :
              log.before[id].state = Dead => log.detect[id].state = Dead
        /\ \A k \in 1..Len(log.drained) :
              \A id \in DOMAIN DrainedUpTo(k - 1).units :
                 DrainedUpTo(k - 1).units[id].state = Dead =>
                    /\ DrainedUpTo(k).panicked \/ DrainedUpTo(k).units[id].state = Dead
                    /\ \A st \in DeltaStates :
                          apply_delta(DrainedUpTo(k - 1), UpdateState(id, st)).units[id].state = Dead

\* A Dead unit got an UpdateState carrying another state, in a run that
\* started with a Dead unit in the table.
C1_Witness ==
    /\ Ticked
    /\ \E id \in DOMAIN log.start : log.start[id].state = Dead
    /\ \E k \in 1..Len(log.drained) :
          /\ log.drained[k].state # Dead
          /\ log.drained[k].id \in DOMAIN DrainedUpTo(k - 1).units
          /\ DrainedUpTo(k - 1).units[log.drained[k].id].state = Dead

\* The number of Collision events the last tick sent for (u, v).
CollisionsSent(u, v) ==
    Cardinality({i \in DOMAIN log.events :
                    /\ log.events[i].function[2] = "collision"
                    /\ log.events[i].self.id = u
                    /\ log.events[i].other # <<>>
                    /\ log.events[i].other[1].id = v})

\* The run of a soldier that starts clear of a general, overlaps it in its
\* ticks 1 to 5 and is clear of it again in tick 6.
Crossing ==
    /\ DOMAIN log.start = {1, 2}
    /\ dt = Rat(1, 10)
    /\ log.start[1].x = R(255)
    /\ log.start[1].state = Move(R(400), R(0))

\* C2: Collision events are edge-triggered.  A tick sends one Collision
\* event for (u, v) when u's role has the collision handler, v overlaps u
\* now and v was not in u's cache as the tick found it, and none otherwise.
C2_CollisionEdgeTriggered ==
    Ticked =>
        /\ \A u \in DOMAIN log.detect : \A v \in DOMAIN log.detect :
              CollisionsSent(u, v) =
                  IF /\ get_handler(handlers, log.detect[u], "collision")
                     /\ v \in detect_collisions(log.detect, log.detect[u])
                     /\ v \notin Seen(log.cc_before, u)
                  THEN 1 ELSE 0
        /\ Crossing =>
              \A u \in {1, 2} :
                 /\ (3 - u) \in detect_collisions(log.detect, log.detect[u]) <=> ticks \in 1..5
                 /\ CollisionsSent(u, 3 - u) =
                       IF ticks = 1 /\ get_handler(handlers, log.detect[u], "collision")
                       THEN 1 ELSE 0

\* A tick in which two units go on overlapping and no Collision event is
\* sent, the fifth tick of an overlap.
C2_Witness ==
    /\ Ticked /\ Crossing /\ ticks = 5
    /\ \E u \in DOMAIN log.detect : \E v \in DOMAIN log.detect :
          /\ get_handler(handlers, log.detect[u], "collision")
          /\ v \in detect_collisions(log.detect, log.detect[u])
          /\ v \in Seen(log.cc_before, u)
          /\ CollisionsSent(u, v) = 0

C5_NoEventLost ==
    log.dispatched =
        log.evaluated + Len(tx) + (IF worker.pc = "exec" THEN 1 ELSE 0)

\* The position in the drain of the last UpdateState for id (0: none).
LastFor(id) ==
    LET at == {k \in 1..Len(log.drained) : log.drained[k].id = id}
    IN  IF at = {} THEN 0 ELSE CHOOSE k \in at : \A j \in at : j <= k

\* C6 as stated: the table after a drain is that of applying the deltas in
\* the order received, and a unit that was not Dead and got deltas has the
\* state of the last of them.
C6_LastDeltaWins ==
    Ticked =>
        /\ units = remove_dead(DrainedUpTo(Len(log.drained)).units)
        /\ \A id \in DOMAIN log.detect :
              (log.detect[id].state # Dead /\ LastFor(id) > 0) =>
                 DrainedUpTo(Len(log.drained)).units[id].state
                    = log.drained[LastFor(id)].state

\* C6: the table after a drain is that of applying the deltas in the order
\* received, and a unit that got deltas has the state of the last of them
\* unless it was Dead when that one was applied.
C6_LastDeltaWinsUnlessDead ==
    Ticked =>
        /\ units = remove_dead(DrainedUpTo(Len(log.drained)).units)
        /\ \A id \in DOMAIN log.detect :
              (LastFor(id) > 0 /\ DrainedUpTo(LastFor(id) - 1).units[id].state # Dead) =>
                 DrainedUpTo(Len(log.drained)).units[id].state
                    = log.drained[LastFor(id)].state

\* One drain applied two deltas carrying different states to a unit that
\* was not Dead, and the unit ends with the state of the second.
C6_Witness ==
    /\ Ticked
    /\ \E j \in 1..Len(log.drained) : \E k \in 1..Len(log.drained) :
          /\ j < k /\ k = LastFor(log.drained[j].id)
          /\ log.drained[j].state # log.drained[k].state
          /\ DrainedUpTo(k - 1).units[log.drained[k].id].state # Dead
          /\ log.drained[k].id \in DOMAIN units
          /\ units[log.drained[k].id].state = log.drained[k].state

\* C7 as stated: the end of the worker never ends the simulation thread.
C7_SimulationSurvivesWorker ==
    ~(sim = "panicked" /\ log.kind = "exec_failed")

\* The distance left on an axis.
Left(a, b) == RAbs(RSub(a, b))

\* The unit is in the Move it started the run in.
InFirstMove(u) ==
    /\ u.state.t = "Move"
    /\ u.state = log.start[u.id].state
    /\ Len(u.state_queue) = Len(log.start[u.id].state_queue)

\* C8: a tick of a unit in Move(x, y) increases its distance to (x, y) on
\* neither axis and, unless it is at (x, y) already, decreases it on one (so
\* the Euclidean distance never grows and shrinks until arrival); the tick
\* either leaves the state alone or puts the unit at (x, y) exactly and pops
\* its next state; and a unit still in its first Move after n ticks has only
\* covered n * speed * dt of the distance |dx| + |dy| it started with, which
\* bounds n.
C8_MoveTerminates ==
    Ticked =>
        \A id \in DOMAIN log.before :
            LET b == log.before[id]
                a == log.detect[id]
                nx == next_state(b)
            IN  b.state.t = "Move" =>
                  /\ RLe(Left(b.state.x, a.x), Left(b.state.x, b.x))
                  /\ RLe(Left(b.state.y, a.y), Left(b.state.y, b.y))
                  /\ (b.x # b.state.x \/ b.y # b.state.y) =>
                        \/ RLt(Left(b.state.x, a.x), Left(b.state.x, b.x))
                        \/ RLt(Left(b.state.y, a.y), Left(b.state.y, b.y))
                  /\ \/ a.state = b.state /\ a.state_queue = b.state_queue
                     \/ /\ a.x = b.state.x /\ a.y = b.state.y
                        /\ a.state = nx.state /\ a.state_queue = nx.queue
                  /\ (id \in DOMAIN log.start /\ InFirstMove(a)) =>
                        RLe(RMul(R(ticks), RMul(a.speed, dt)),
                            RAdd(Left(a.state.x, log.start[id].x),
                                 Left(a.state.y, log.start[id].y)))

\* A unit that started off both axes of its target arrives in its third
\* tick or later.
C8_Witness ==
    /\ Ticked /\ ticks >= 3
    /\ \E id \in DOMAIN log.before \cap DOMAIN log.start :
          /\ InFirstMove(log.before[id])
          /\ log.start[id].x # log.before[id].state.x
          /\ log.start[id].y # log.before[id].state.y
          /\ log.detect[id].state # log.before[id].state
          /\ log.detect[id].x = log.before[id].state.x
          /\ log.detect[id].y = log.before[id].state.y

\* The run of a soldier at (0, 0) in Move(100, 100) with speed 100 and
\* dt 0.5.
MoveScenario ==
    /\ DOMAIN log.start = {1}
    /\ dt = Rat(1, 2)
    /\ log.start[1].role = "soldier"
    /\ log.start[1].speed = R(100)
    /\ log.start[1].x = R(0) /\ log.start[1].y = R(0)
    /\ log.start[1].state = Move(R(100), R(100))

\* The number of StateChange events the last tick sent for u.
StateChangesSent(u) ==
    Cardinality({i \in DOMAIN log.events :
                    /\ log.events[i].function[2] = "state_change"
                    /\ log.events[i].self.id = u})

\* The unit is at (x, y) in the state the run started with.
MovingAt(u, x, y) ==
    /\ u.x = R(x) /\ u.y = R(y)
    /\ u.state = log.start[u.id].state
    /\ u.state_queue = log.start[u.id].state_queue

\* The unit is at (x, y) and has popped its next state.
ArrivedAt(u, x, y) ==
    /\ u.x = R(x) /\ u.y = R(y)
    /\ u.state = next_state(log.start[u.id]).state
    /\ u.state_queue = next_state(log.start[u.id]).queue

Firing ==
    {id \in DOMAIN log.before :
        /\ log.before[id].state.t = "Shoot"
        /\ can_see_point(log.before[id], log.before[id].state.x, log.before[id].state.y)}

\* (bx, by) is on the ray from the unit to (x, y).
OnRayTo(self, bx, by, x, y) ==
    /\ RMul(RSub(bx, self.x), RSub(y, self.y)) = RMul(RSub(by, self.y), RSub(x, self.x))
    /\ RLe(R(0), RMul(RSub(bx, self.x), RSub(x, self.x)))
    /\ RLe(R(0), RMul(RSub(by, self.y), RSub(y, self.y)))

\* The bullet is width + 10 from the shooter, the sum over the axes, on the
\* ray to the shooter's point.
PlacedTowardsPoint(shooter, bullet) ==
    /\ RAdd(Left(bullet.x, shooter.x), Left(bullet.y, shooter.y))
          = RAdd(shooter.width, R(BulletOffset))
    /\ OnRayTo(shooter, bullet.x, bullet.y, shooter.state.x, shooter.state.y)

\* The bullet is one body width ahead of the shooter along its heading.
PlacedOneWidthAhead(shooter, bullet) ==
    LET L == 2 * Lcm(Lcm(shooter.x[2], shooter.y[2]),
                     Lcm(Lcm(bullet.x[2], bullet.y[2]), shooter.width[2]))
    IN  Transform(shooter, 0, -ToInt(shooter.width, L), L)
           = << <<2 * ToInt(bullet.x, L), 0>>, <<2 * ToInt(bullet.y, L), 0>> >>

\* The bullets among the units the last tick spawned that are the shooter's:
\* of its team, in Move to its point, under an id that was not in the table.
Bullets(shooter) ==
    {i \in DOMAIN log.new :
        /\ log.new[i].role = "bullet"
        /\ log.new[i].team = shooter.team
        /\ log.new[i].state = Move(shooter.state.x, shooter.state.y)
        /\ log.new[i].id \notin DOMAIN log.before}

\* What a tick does with the units in Shoot and Aim, but for the place of
\* the bullet: a unit whose point is out of view takes Aim with the Shoot
\* pushed and stays where it is; a unit in Aim keeps Aim or pops; the units
\* spawned are one bullet per unit whose point is in view, of its team, in
\* Move to its point, and that unit pops its next state and stays where it
\* is; and a run that started with one Shoot spawns at most one unit.
ShootsOnce ==
    /\ Len(log.new) = Cardinality(Firing)
    /\ \A id \in DOMAIN log.before :
          LET b == log.before[id]
              a == log.detect[id]
          IN  /\ (b.state.t = "Shoot" /\ id \notin Firing) =>
                    a = [b EXCEPT !.state = Aim(b.state.x, b.state.y),
                                  !.state_queue = Append(b.state_queue, b.state)]
              /\ b.state.t = "Aim" =>
                    \/ a.state = b.state /\ a.state_queue = b.state_queue
                    \/ a.state = next_state(b).state /\ a.state_queue = next_state(b).queue
              /\ id \in Firing =>
                    /\ a = [b EXCEPT !.state = next_state(b).state,
                                     !.state_queue = next_state(b).queue]
                    /\ Bullets(b) # {}
    /\ ( /\ Cardinality({id \in DOMAIN log.start : log.start[id].state.t = "Shoot"}) = 1
         /\ \A id \in DOMAIN log.start :
               \A i \in DOMAIN log.start[id].state_queue :
                  log.start[id].state_queue[i].t # "Shoot" )
       => next_id - Cardinality(DOMAIN log.start) - 1 <= 1

StateChangeEvents(u) ==
    {i \in DOMAIN log.events :
        log.events[i].function[2] = "state_change" /\ log.events[i].self.id = u}

\* The unit's update in the last tick changed its state.
StateChanged(u) ==
    u \in DOMAIN log.before /\ log.detect[u].state # log.before[u].state

\* Every unit the last tick spawned is in the table, as it was spawned and
\* with empty caches, when the detection passes run.
SpawnsSurfaced ==
    \A i \in DOMAIN log.new :
        /\ log.new[i].id \in DOMAIN log.detect \ DOMAIN log.before
        /\ log.detect[log.new[i].id] = log.new[i]

\* C11 as stated: a tick sends one StateChange event for a unit whose update
\* changed its state, whatever its role, and none for any other unit; the
\* units spawned are in the table.
C11_StateChangeExactlyOnChange ==
    Ticked =>
        /\ \A u \in DOMAIN log.detect :
              Cardinality(StateChangeEvents(u)) = IF StateChanged(u) THEN 1 ELSE 0
        /\ SpawnsSurfaced

\* C11: a tick sends one StateChange event for a unit when its update
\* changed its state and its role has the state_change handler, and none
\* otherwise (none for a unit whose state is as it was, none for a unit
\* spawned in the tick); the event carries the unit as updated and no other
\* unit; the units spawned are in the table besides.
C11_StateChangeOnChangeWhenBound ==
    Ticked =>
        /\ \A u \in DOMAIN log.detect :
              /\ Cardinality(StateChangeEvents(u)) =
                    IF StateChanged(u) /\ get_handler(handlers, log.detect[u], "state_change")
                    THEN 1 ELSE 0
              /\ \A i \in StateChangeEvents(u) :
                    /\ log.events[i].self = UnitSnapshot_new(log.detect[u])
                    /\ log.events[i].other = <<>>
                    /\ log.events[i].function[1] = log.detect[u].role
        /\ SpawnsSurfaced

\* A unit changed state and spawned a unit in the same tick, and got its one
\* event, while another unit kept its state and got none.
C11_Witness ==
    /\ Ticked /\ Len(log.new) = 1
    /\ \E u \in Firing : StateChanged(u) /\ Cardinality(StateChangeEvents(u)) = 1
    /\ \E v \in DOMAIN log.before : ~StateChanged(v) /\ StateChangeEvents(v) = {}

\* The number of events of a kind the last tick sent for u about v.
EventsSent(kind, u, v) ==
    Cardinality({i \in DOMAIN log.events :
                    /\ log.events[i].function[2] = kind
                    /\ log.events[i].self.id = u
                    /\ log.events[i].other # <<>>
                    /\ log.events[i].other[1].id = v})

\* The view events of the last tick.
ViewEvents ==
    {i \in DOMAIN log.events : log.events[i].function[2] \in {"enter_view", "exit_view"}}

\* No view event is about an id that is not in the table.
NoViewOfRemoved ==
    \A i \in ViewEvents :
        /\ log.events[i].self.id \in DOMAIN log.detect
        /\ log.events[i].other # <<>>
        /\ log.events[i].other[1].id \in DOMAIN log.detect

\* C12 as stated: for every unit, whatever its role, one EnterView event
\* per id seen now and not in the cache, one ExitView event per cached id
\* not seen now that is still in the table, and no other view event.
C12_ViewEdgeTriggered ==
    Ticked =>
        /\ \A u \in DOMAIN log.detect : \A v \in DOMAIN log.detect :
              LET now == detect_views(log.detect, log.detect[u])
                  seen == Seen(log.vc_before, u)
              IN  /\ EventsSent("enter_view", u, v) =
                        IF v \in now \ seen THEN 1 ELSE 0
                  /\ EventsSent("exit_view", u, v) =
                        IF v \in seen \ now THEN 1 ELSE 0
        /\ NoViewOfRemoved

\* C12: view events are edge-triggered against the cache as the tick found
\* it, for the handlers the unit's role has.  A tick sends one EnterView
\* event for (u, v) when u's role has the enter_view handler, u sees v now
\* and v is not in u's cache; one ExitView event for (u, v) when u's role has
\* the exit_view handler, v is in u's cache, u does not see v now and v is in
\* the table; and no other view event: none about an id that has left the
\* table, none for an id that is in the cache and seen, or in neither.
C12_ViewEdgeTriggeredWhenBound ==
    Ticked =>
        /\ \A u \in DOMAIN log.detect : \A v \in DOMAIN log.detect :
              LET now == detect_views(log.detect, log.detect[u])
                  seen == Seen(log.vc_before, u)
              IN  /\ EventsSent("enter_view", u, v) =
                        IF get_handler(handlers, log.detect[u], "enter_view") /\ v \in now \ seen
                        THEN 1 ELSE 0
                  /\ EventsSent("exit_view", u, v) =
                        IF get_handler(handlers, log.detect[u], "exit_view") /\ v \in seen \ now
                        THEN 1 ELSE 0
        /\ NoViewOfRemoved

\* A unit with the exit_view handler has in its cache an id that was removed
\* from the table, and the tick sends no view event.
ExitSkippedForRemoved ==
    /\ Ticked /\ ViewEvents = {}
    /\ \E u \in DOMAIN log.detect :
          /\ get_handler(handlers, log.detect[u], "exit_view")
          /\ Seen(log.vc_before, u) \ DOMAIN log.detect # {}

\* A unit loses sight of a unit that is still in the table and gets its
\* ExitView event, in a run in which it got the EnterView event before and
\* no view event in the ticks between.
C12_Witness ==
    /\ Ticked /\ ticks >= 3
    /\ \E u \in DOMAIN log.detect : \E v \in DOMAIN log.detect :
          /\ v \in Seen(log.vc_before, u)
          /\ v \notin detect_views(log.detect, log.detect[u])
          /\ EventsSent("exit_view", u, v) = 1
          /\ EventsSent("enter_view", u, v) = 0

\* The table of the last tick after its drain, before the removal of the dead.
AfterDrain == DrainedUpTo(Len(log.drained)).units

\* C13: once a tick has run no unit in the table is Dead; the table a tick
\* leaves holds exactly the units that were not Dead after its drain, each as
\* the drain left it: a unit made Dead by a delta of that drain is gone, and
\* no other unit is.
C13_DeadRemovedAtEndOfTick ==
    /\ ticks >= 1 => \A id \in DOMAIN units : units[id].state # Dead
    /\ Ticked =>
          /\ DOMAIN units = {id \in DOMAIN AfterDrain : AfterDrain[id].state # Dead}
          /\ \A id \in DOMAIN units : units[id] = AfterDrain[id]

\* A unit that was not Dead at the detection passes was made Dead by a
\* drained delta and is gone, while a unit that is not Dead stays.
C13_Witness ==
    /\ Ticked /\ units # <<>>
    /\ \E k \in 1..Len(log.drained) :
          /\ log.drained[k].kind = "UpdateState"
          /\ log.drained[k].state = Dead
          /\ log.drained[k].id \in DOMAIN log.detect
          /\ log.detect[log.drained[k].id].state # Dead
          /\ log.drained[k].id \notin DOMAIN units

\* C14 as stated: after a tick the keys of both caches are the ids of the
\* table: an entry is made with the unit and removed with it.
C14_CacheKeysAreTableIds ==
    Ticked =>
        /\ DOMAIN collision_cache = DOMAIN units
        /\ DOMAIN view_cache = DOMAIN units

\* The spawned units but for the ids they drew.
Unnamed(new) == {[new[i] EXCEPT !.id = 0] : i \in DOMAIN new}

Evaluated == log.req # <<>>

\* The last `n` messages of a channel.
LastOf(chan, n) == SubSeq(chan, Len(chan) - n + 1, Len(chan))

\* The text the behaviour of the last request left in __self.state, when it
\* is defined, ran without a fault and left one: <<text>>, else <<>>.
DeclaredText ==
    LET req == log.req[1]
        does == lua[req.function]
    IN  CASE does.kind = "untouched" -> <<UnitState_to_string(req.self.state)>>
          [] does.kind = "set" -> <<UnitState_to_string(does.state)>>
          [] OTHER -> <<>>

\* C16: for a request whose function exists and leaves a state text that
\* decodes to s, exec_function returns UpdateState(id of the self snapshot, s)
\* when s is not the state of the self snapshot and no delta when it is; the
\* delta is what the worker sends on the result channel and is never
\* addressed to the other unit of the request.
C16_DeltaIffStateDiffers ==
    (Evaluated /\ DeclaredText # <<>> /\ UnitState_from_str(DeclaredText[1]).ok) =>
        LET req == log.req[1]
            res == log.res[1]
            s == UnitState_from_str(DeclaredText[1]).state
        IN  /\ ~res.panic
            /\ res.delta = IF s # req.self.state
                           THEN <<UpdateState(req.self.id, s)>> ELSE <<>>
            /\ Len(delta_rx) >= Len(res.delta)
            /\ LastOf(delta_rx, Len(res.delta)) = res.delta
            /\ \A i \in DOMAIN res.delta :
                  /\ res.delta[i].id = req.self.id
                  /\ req.other # <<>> => res.delta[i].id # req.other[1].id

\* A request about another unit got a delta, for a state set with more than
\* two decimals.
C16_Witness ==
    /\ Evaluated /\ log.req[1].other # <<>>
    /\ lua[log.req[1].function] = Sets(Move(Rat(1, 3), Rat(5, 2)))
    /\ log.res[1].delta = <<UpdateState(1, Move(Rat(33, 100), Rat(5, 2)))>>
    /\ delta_rx # <<>>

\* C17: a request for a function that is not defined gives no delta and no
\* error: the worker has not panicked and every request sent and not
\* evaluated yet is still in the channel or in the worker's hands.
C17_UndefinedIsNoError ==
    (Evaluated /\ lua[log.req[1].function].kind = "undefined") =>
        /\ log.res[1] = [panic |-> FALSE, delta |-> <<>>]
        /\ worker.pc \in {"recv", "exec"}
        /\ log.dispatched =
              log.evaluated + Len(tx) + (IF worker.pc = "exec" THEN 1 ELSE 0)

\* The worker found no function for its first request and has taken the
\* second.
C17_Witness ==
    /\ log.kind = "init" /\ Len(log.events) = 2
    /\ Evaluated /\ log.evaluated = 1 /\ log.req[1] = log.events[1]
    /\ lua[log.req[1].function].kind = "undefined"
    /\ worker = [pc |-> "exec", req |-> <<log.events[2]>>]

\* The snapshots of an event are those of the units of the table `us`.
SnapshotsOf(event, us) ==
    /\ event.self.id \in DOMAIN us
    /\ event.self = UnitSnapshot_new(us[event.self.id])
    /\ event.other # <<>> =>
          /\ event.other[1].id \in DOMAIN us
          /\ event.other[1] = UnitSnapshot_new(us[event.other[1].id])

\* A step of the simulation thread: the events it sends carry copies of the
\* units as they are at the dispatch, and whatever it does to the World the
\* requests that wait and the request the worker holds stay as they were.
TickKeepsRequests ==
    ticks' # ticks =>
        /\ log'.kind = "tick" =>
              \A i \in DOMAIN log'.events : SnapshotsOf(log'.events[i], log'.detect)
        /\ worker' = worker
        /\ Len(tx') >= Len(tx)
        /\ SubSeq(tx', 1, Len(tx)) = tx

\* A step of the worker: it leaves the World as it is; what it evaluates is
\* the request as it was sent, and all it gives is the delta exec_function
\* makes of that request, put on the result channel.
WorkerKeepsWorld ==
    worker' # worker =>
        /\ UNCHANGED <<units, collision_cache, view_cache, next_id, ticks, sim>>
        /\ worker.pc = "recv" =>
              /\ worker'.req = <<Head(tx)>>
              /\ delta_rx' = delta_rx
        /\ worker.pc = "exec" =>
              LET req == worker.req[1]
                  res == exec_function(req, lua[req.function].kind # "undefined",
                                       ScriptOutcome(lua, req))
              IN  /\ log'.req = worker.req
                  /\ log'.res = <<res>>
                  /\ delta_rx' = delta_rx \o (IF res.panic THEN <<>> ELSE res.delta)

\* C18: the snapshots of an event are copies made at the dispatch.  The
\* World's later steps change no request that waits, the worker evaluates
\* the fields that were sent, and a worker's step changes nothing of the
\* World: all it does to it is a delta on the result channel.
C18_SnapshotsAreCopies == [][TickKeepsRequests /\ WorkerKeepsWorld]_vars

\* The worker has evaluated a request about a unit that has changed in the
\* table since the request was sent, and a request about a unit that has
\* left the table waits.
C18_Witness ==
    /\ Evaluated /\ ticks >= 2
    /\ log.req[1].self.id \in DOMAIN units
    /\ UnitSnapshot_new(units[log.req[1].self.id]) # log.req[1].self
    /\ log.res[1].delta # <<>>
    /\ \E i \in DOMAIN tx : tx[i].self.id \notin DOMAIN units

\* The last tick left the unit's state and queue as they were.
Kept(b, a) == a.state = b.state /\ a.state_queue = b.state_queue

\* The last tick pushed the unit's Shoot and made it aim.
Pushed(b, a) ==
    /\ b.state.t = "Shoot"
    /\ a.state = Aim(b.state.x, b.state.y)
    /\ a.state_queue = b.state_queue \o <<b.state>>

\* The last tick gave the unit the newest entry of its queue and left the
\* older entries in their order, or Idle and the empty queue.
Popped(b, a) ==
    LET q == b.state_queue
    IN  IF q = <<>> THEN a.state = Idle /\ a.state_queue = <<>>
        ELSE /\ a.state = q[Len(q)]
             /\ a.state_queue = SubSeq(q, 1, Len(q) - 1)

\* C19: the state queue is a stack.  A tick leaves a unit's state and queue
\* alone, or pushes its Shoot (when the point is out of view), or pops: the
\* state becomes the entry pushed last, the older entries stay in order,
\* and a pop of the empty queue gives Idle and leaves it empty.  A Move pops
\* exactly when it arrives, a Shoot exactly when it fires, an Aim not
\* before it has turned to its point; Idle and Dead never do.
C19_QueueIsLIFO ==
    Ticked =>
        \A id \in DOMAIN log.before :
            LET b == log.before[id]
                a == log.detect[id]
            IN  CASE b.state.t = "Move" ->
                       IF MoveArrives(b, b.state.x, b.state.y, RMul(b.speed, dt))
                       THEN Popped(b, a) ELSE Kept(b, a)
                  [] b.state.t = "Shoot" ->
                       IF id \in Firing THEN Popped(b, a) ELSE Pushed(b, a)
                  [] b.state.t = "Aim" ->
                       \/ Kept(b, a)
                       \/ Popped(b, a) /\ can_see_point(a, b.state.x, b.state.y)
                  [] OTHER -> Kept(b, a)

\* A unit resumes the newest of three queued states, the Shoot it had
\* pushed on top of two older ones, and keeps the two in their order.
C19_Witness ==
    /\ Ticked
    /\ \E id \in DOMAIN log.before \cap DOMAIN log.start :
          /\ log.before[id].state_queue = <<Idle, Home, log.start[id].state>>
          /\ log.detect[id].state = log.start[id].state
          /\ log.detect[id].state_queue = <<Idle, Home>>

\* r is a with two decimals: a whole number of hundredths nearest to a.
Rounded2(a, r) ==
    /\ ~IsNaN(a) /\ ~IsNaN(r)
    /\ 100 % r[2] = 0
    /\ RLe(RAbs(RSub(a, r)), Rat(1, 200))

\* Decoding the text of the state st succeeds and gives the same variant
\* with the fields of st rounded to two decimals.
RoundTrips(st) ==
    LET back == UnitState_from_str(UnitState_to_string(st))
    IN  /\ back.ok
        /\ back.state.t = st.t
        /\ st.t \in {"Move", "Aim", "Shoot"} =>
              /\ Rounded2(st.x, back.state.x)
              /\ Rounded2(st.y, back.state.y)

\* C20 as stated: the state of every snapshot the worker is sent makes the
\* round trip through its text, so that a behaviour that leaves the text
\* as it found it never ends the worker.
C20_CodecRoundTrip ==
    Evaluated =>
        /\ RoundTrips(log.req[1].self.state)
        /\ lua[log.req[1].function].kind = "untouched" => ~log.res[1].panic

\* An angle brought into [0, 2 pi), and the angle between two headings, the
\* shorter way round.
Norm(a) ==
    LET m == FMod(a, TWO_PI)
    IN  IF RLt(m, R(0)) THEN RAdd(m, R(TWO_PI)) ELSE m

AngDist(a, b) ==
    LET m == Norm(RSub(a, b))
    IN  IF RLe(m, R(PI)) THEN m ELSE RSub(R(TWO_PI), m)

Rotated == log.kind = "rotate" /\ ~IsNaN(log.before[1].x)

\* C21: rotate_towards changes the heading by at most maxDelta; a target
\* bearing within maxDelta of the heading is taken exactly; otherwise the
\* heading turns by maxDelta the shorter way round, the way across 0 / 2 pi
\* included.
C21_TurnsShorterWay ==
    Rotated =>
        LET b == log.before[1]
            a == units[1]
            dest == dest_rotation_of(b, b.state.x, b.state.y)
            gap == AngDist(b.rotation, dest)
        IN  /\ RLe(AngDist(a.rotation, b.rotation), dt)
            /\ RLe(gap, dt) => a.rotation = dest
            /\ RGt(gap, dt) => AngDist(a.rotation, dest) = RSub(gap, dt)

\* C22: the heading rotate_towards returns lies in [0, 2 pi), whatever the
\* heading it was given.
C22_ResultInRange ==
    Rotated => RLe(R(0), units[1].rotation) /\ RLt(units[1].rotation, R(TWO_PI))

TimelineReplaysInOrder ==
    timeline' # timeline =>
        LET decoded == generate_timeline(timeline.declared)
            k == Len(decoded.events) - Len(timeline.rest) + 1
        IN  /\ UNCHANGED <<units, collision_cache, view_cache, tx, worker, sim,
                           next_id, ticks>>
            /\ timeline.pc = "start" =>
                  /\ delta_rx' = delta_rx
                  /\ timeline'.pc # "panicked" => timeline'.rest = decoded.events
            /\ timeline.pc # "start" =>
                  \/ /\ timeline'.pc = "panicked"
                     /\ delta_rx' = delta_rx
                  \/ /\ timeline'.pc # "panicked"
                     /\ Len(timeline'.rest) = Len(timeline.rest) - 1
                     /\ delta_rx' = Append(delta_rx,
                                           UpdateState(timeline.declared[k].id,
                                               UnitState_from_str(timeline.declared[k].text).state))

\* The World changes in ticks only, and only by what the tick drained: a
\* unit that a drained delta declared Dead is gone after the tick, whatever
\* the deltas behind it say.
WorldChangesInTick ==
    /\ units' # units => ticks' = ticks + 1 /\ log'.kind = "tick"
    /\ (ticks' # ticks /\ log'.kind = "tick") =>
          /\ log'.drained = delta_rx
          /\ \A i \in DOMAIN log'.drained :
                log'.drained[i].state = Dead /\ log'.drained[i].id \in DOMAIN log'.detect
                    => log'.drained[i].id \notin DOMAIN units'

C25_IdleAndDeadRest ==
    Ticked =>
        \A id \in DOMAIN log.before :
            log.before[id].state \in {Idle, Dead} =>
                /\ id \in DOMAIN log.detect
                /\ log.detect[id] = log.before[id]
                /\ id \notin log.changed
                /\ \A d \in Steps :
                      Unit_update(log.before[id], d, 0)
                          = [unit |-> log.before[id], new |-> <<>>]
                /\ (log.before[id].state = Idle /\ id \in DOMAIN units
                        /\ units[id].state # Idle) =>
                      /\ LastFor(id) > 0
                      /\ log.drained[LastFor(id)].kind = "UpdateState"
                      /\ units[id].state = log.drained[LastFor(id)].state

\* A tick began with an Idle unit and a delta for it in the channel, and the
\* unit has left Idle.
C25_Witness ==
    /\ Ticked
    /\ \E id \in DOMAIN log.before \cap DOMAIN units :
          /\ log.before[id].state = Idle
          /\ log.detect[id] = log.before[id]
          /\ units[id].state # Idle

\* The unit left the state it was in as the last tick began.
LeftState(id) ==
    \/ log.detect[id].state # log.before[id].state
    \/ log.detect[id].state_queue # log.before[id].state_queue

\* A unit in Aim leaves Aim in the ticks, and only in the ticks, in which the
\* point is inside its wedge once it has turned.
AimLeavesWhenInWedge ==
    Ticked =>
        \A id \in DOMAIN log.before :
            log.before[id].state.t = "Aim" =>
                (LeftState(id) <=>
                    can_see_point([log.before[id] EXCEPT !.rotation = log.detect[id].rotation],
                                  log.before[id].state.x, log.before[id].state.y))

\* A unit that began in Aim is never again, still in Aim, the unit it was
\* at the start (from where the same ticks would repeat for ever).
AimNeverComesBack ==
    ticks >= 1 =>
        \A id \in DOMAIN units \cap DOMAIN log.start :
            log.start[id].state.t = "Aim" => units[id] # log.start[id]

\* C26: a unit in Aim leaves that state exactly in a tick in which, after
\* its turn, the point is inside its wedge, and it does so in the end for
\* every target and start.
C26_AimLeavesWhenInWedge == AimLeavesWhenInWedge /\ AimNeverComesBack

\* C27: every event a tick sends is for a unit of the table, names the
\* function of that unit's role and of a kind of event, and that (role,
\* kind) has a behaviour bound: no event is sent for a pair that has none.
C27_NoEventWithoutHandler ==
    Ticked =>
        \A i \in DOMAIN log.events :
            /\ log.events[i].self.id \in DOMAIN log.detect
            /\ log.events[i].function[1] = log.detect[log.events[i].self.id].role
            /\ log.events[i].function \in handlers

\* A soldier and a general begin to overlap; the soldier has a collision
\* behaviour and its event is sent, the general has none and nothing is
\* sent for it.
C27_Witness ==
    /\ Ticked
    /\ \E a \in DOMAIN log.detect, b \in DOMAIN log.detect :
          /\ log.detect[a].role = "soldier" /\ log.detect[b].role = "general"
          /\ <<"soldier", "collision">> \in handlers
          /\ <<"general", "collision">> \notin handlers
          /\ overlaps(log.detect[b], log.detect[a])
          /\ a \notin Seen(log.cc_before, b)
          /\ EventsSent("collision", a, b) = 1
          /\ EventsSent("collision", b, a) = 0

\* C28: a drained UpdateState whose id is not in the table does not fail
\* the tick: the delta is passed over, the deltas behind it are applied and
\* the tick ends as any other.
C28_MissingIdIgnored ==
    /\ log.kind # "apply_failed"
    /\ Ticked =>
          \A k \in DOMAIN log.drained :
              log.drained[k].id \notin DOMAIN DrainedUpTo(k - 1).units =>
                  DrainedUpTo(k).units = DrainedUpTo(k - 1).units

\* The worker has evaluated a request whose behaviour leaves the state text
\* as set_unit wrote it.
Untouched == Evaluated /\ lua[log.req[1].function].kind = "untouched"

\* The state has no fields, or fields that are whole numbers of hundredths.
TwoDecimals(st) ==
    st.t \in {"Idle", "Dead"} \/ (100 % st.x[2] = 0 /\ 100 % st.y[2] = 0)

Negative(st) ==
    st.t \notin {"Idle", "Dead"} /\ (RLt(st.x, R(0)) \/ RLt(st.y, R(0)))

\* C29 as stated: a behaviour that leaves the state untouched gives no
\* delta, whatever the state of the snapshot: the text decodes to that state.
C29_UntouchedNoDelta ==
    Untouched =>
        /\ UnitState_from_str(UnitState_to_string(log.req[1].self.state))
               = [ok |-> TRUE, state |-> log.req[1].self.state]
        /\ log.res[1] = [panic |-> FALSE, delta |-> <<>>]

\* C29: a behaviour that leaves the state untouched gives no delta exactly
\* when the state of the snapshot has no field of more than two decimals;
\* when it has, the delta is UpdateState(self, the state with its fields
\* rounded to two decimals).  (A state with a negative field does not
\* decode and ends the worker.)
C29_UntouchedDeltaIffRounded ==
    Untouched =>
        LET req == log.req[1]
            res == log.res[1]
            st == req.self.state
        IN  IF Negative(st) THEN res.panic
            ELSE /\ ~res.panic
                 /\ TwoDecimals(st) <=> res.delta = <<>>
                 /\ \A i \in DOMAIN res.delta :
                       /\ i = 1
                       /\ res.delta[i].kind = "UpdateState"
                       /\ res.delta[i].id = req.self.id
                       /\ res.delta[i].state.t = st.t
                       /\ res.delta[i].state # st
                       /\ Rounded2(st.x, res.delta[i].state.x)
                       /\ Rounded2(st.y, res.delta[i].state.y)

\* A soldier on its way to (1/3, 5/2) whose behaviour touched nothing is
\* sent on its way to (0.33, 2.5).
C29_Witness ==
    /\ Untouched
    /\ log.req[1].self.state = Move(Rat(1, 3), Rat(5, 2))
    /\ log.res[1].delta = <<UpdateState(1, Move(Rat(33, 100), Rat(5, 2)))>>
    /\ LastOf(delta_rx, 1) = log.res[1].delta

Moved == log.kind = "move"

\* The target of the pose is on the axis of the pose that runs along x
\* (same y), or along y.
OnAxisX(b) == b.state.y = b.y /\ b.state.x # b.x
OnAxisY(b) == b.state.x = b.x /\ b.state.y # b.y

\* The coordinate went from `from` towards `to` by exactly dist, or is `to`.
Advanced(from, to, dist, now) ==
    \/ now = to
    \/ now = IF RLt(from, to) THEN RAdd(from, dist) ELSE RSub(from, dist)

\* C30: move_towards of a pose that is at its target gives the same pose for
\* every distance >= 0, and no NaN; for a target on one axis of the pose the
\* pose keeps its place on the other axis and goes along the axis by
\* exactly the distance, or lands on the target.
C30_MoveWellDefined ==
    (Moved /\ ~HasNaN(log.before[1])) =>
        LET b == log.before[1]
            a == units[1]
        IN  /\ ~HasNaN(a)
            /\ (b.x = b.state.x /\ b.y = b.state.y) => a = b
            /\ OnAxisX(b) => a.y = b.y /\ Advanced(b.x, b.state.x, log.dist, a.x)
            /\ OnAxisY(b) => a.x = b.x /\ Advanced(b.y, b.state.y, log.dist, a.y)
            /\ \A dist \in PoseDists :
                  (b.x = b.state.x /\ b.y = b.state.y) =>
                      LET delta == Unit_move_towards(b, b.state.x, b.state.y, dist)
                      IN  delta = <<R(0), R(0)>>

\* C31: the wait of the timeline thread never underflows: the entry it is
\* about to replay is never declared for a time before the thread's clock,
\* no wait has wrapped, and the thread has not ended in its loop (it ends
\* before its loop only, on a list that does not decode).
C31_WaitNeverUnderflows ==
    /\ timeline.pc = "replay" => Head(timeline.rest).time >= timeline.current_time
    /\ timeline.turns = 0
    /\ timeline.pc = "panicked" => generate_timeline(timeline.declared).panic
====
